---- MODULE Spec2Model ----
(***************************************************************************)
(* Model of the CCPP heat-and-mass-balance solver (ccpp_hbd_solver): the   *)
(* six solver stages as operators over nested records, and run_pipeline as *)
(* a state machine with its stage boundaries, progress notifications and   *)
(* cooperative cancellation.                                               *)
(*                                                                         *)
(* Numbers.  Python floats are modelled as exact rationals <<n, d>> with   *)
(* d > 0 in lowest terms; rounding error of the floating point unit is not *)
(* modelled.  Dictionaries are TLA+ records (functions over strings); a    *)
(* key that is absent from the dictionary is absent from the record.       *)
(***************************************************************************)
EXTENDS Integers, Sequences, FiniteSets, TLC

\* ------------------------------------------------------------------------
\* Rational arithmetic (Python float operators + - * / < <= max min abs)
\* ------------------------------------------------------------------------

\* Python evaluates an operand once, before the operation: value is computed
\* once and handed to Op
Bind(value, Op(_)) == CHOOSE result \in {Op(x) : x \in {value}} : TRUE

IAbs(i) == IF i < 0 THEN -i ELSE i

RECURSIVE GCD(_, _)
GCD(a, b) == IF b = 0 THEN a ELSE GCD(b, a % b)

Rat(n, d) ==
    LET g == GCD(IAbs(n), IAbs(d))
        s == IF d < 0 THEN -1 ELSE 1
    IN  <<(s * n) \div g, (s * d) \div g>>

RInt(i) == <<i, 1>>

RZero == RInt(0)

ROne == RInt(1)

RNeg(a) == <<-a[1], a[2]>>

RAdd(a, b) ==
    LET g == GCD(a[2], b[2])
    IN  Rat(a[1] * (b[2] \div g) + b[1] * (a[2] \div g), (a[2] \div g) * b[2])

RSub(a, b) == RAdd(a, RNeg(b))

RMul(a, b) ==
    LET g1 == GCD(IAbs(a[1]), b[2])
        g2 == GCD(IAbs(b[1]), a[2])
    IN  IF a[1] = 0 \/ b[1] = 0 THEN RZero
        ELSE <<(a[1] \div g1) * (b[1] \div g2), (a[2] \div g2) * (b[2] \div g1)>>

\* a / b for b # 0 (every division of the source is guarded or by a constant)
RDiv(a, b) ==
    IF b[1] < 0 THEN RMul(a, <<-b[2], -b[1]>>) ELSE RMul(a, <<b[2], b[1]>>)

\* a < b: by the integer parts, and by the fractional parts when these agree
RLt(a, b) ==
    LET fa == a[1] \div a[2]
        fb == b[1] \div b[2]
        g == GCD(a[2], b[2])
    IN  IF fa # fb THEN fa < fb
        ELSE (a[1] - fa * a[2]) * (b[2] \div g) < (b[1] - fb * b[2]) * (a[2] \div g)

RLe(a, b) == ~RLt(b, a)

RMax(a, b) == IF RLt(a, b) THEN b ELSE a

RMin(a, b) == IF RLt(b, a) THEN b ELSE a

RAbs(a) == <<IAbs(a[1]), a[2]>>

\* Python truthiness of a float: 0.0 is falsy
RTruthy(a) == a[1] # 0

\* ------------------------------------------------------------------------
\* Dictionaries
\* ------------------------------------------------------------------------

EmptyDict == <<>>

\* None in a number-valued position of a result
None == <<>>

Has(d, k) == k \in DOMAIN d

\* dict.get(k, default)
Get(d, k, default) == IF k \in DOMAIN d THEN d[k] ELSE default

\* an exception leaving a function in place of its return value
Raised(kind) == [raised |-> kind]

\* isinstance(x, Mapping): a malformed (non-mapping) value is marked by the
\* key "not_a_mapping"
IsMapping(x) == ~("not_a_mapping" \in DOMAIN x)

\* ------------------------------------------------------------------------
\* utils/warnings.py
\* ------------------------------------------------------------------------

\* The formatted string "[code] base: detail" is kept as its two variable
\* parts; the catalogue text is a function of the code.
format_warning(code, detail) == [code |-> code, detail |-> detail]

Codes(warnings) == {warnings[i].code : i \in DOMAIN warnings}

\* str.upper() on the level names
Upper(level) ==
    CASE level = "hp" -> "HP"
      [] level = "ip" -> "IP"
      [] level = "lp" -> "LP"

\* ------------------------------------------------------------------------
\* utils/unit_helpers.py, utils/physical_props.py
\* ------------------------------------------------------------------------

kpa_to_bar(pressure_kpa) == RDiv(pressure_kpa, RInt(100))

\* BACKEND.humid_air of the two backends that need no HAPropsSI table:
\* CoolPropBackend with HAPropsSI unavailable, and IAPWSBackend.
humid_air_props(backend, temperature_c, rh_pct, pressure_bar) ==
    LET temperature_k == RAdd(temperature_c, Rat(27315, 100))
        cp == Rat(1005, 1000)
    IN  IF backend = "coolprop"
        THEN [specific_heat_kJ_per_kgK |-> cp,
              enthalpy_kJ_per_kg |-> RDiv(RMul(cp, temperature_k), RInt(1000)),
              humidity_ratio |-> RMax(RMin(RDiv(rh_pct, RInt(100)), ROne), RZero)]
        ELSE [specific_heat_kJ_per_kgK |-> cp,
              enthalpy_kJ_per_kg |->
                  RDiv(RMul(cp, RSub(temperature_k, Rat(27315, 100))), RInt(1000)),
              humidity_ratio |-> RDiv(rh_pct, RInt(100))]

\* load_vendor_curve: env is the process environment and file system as the
\* call sees them: [path_set, readable, data]; the result is the curve
\* record, or None (modelled as the empty dict, which is falsy like None).
\* data that is not a mapping stands for a file whose content is not a JSON
\* object: json.load or data.get raises, and only OSError is caught.
load_vendor_curve(env, curve_id) ==
    IF ~env.path_set THEN EmptyDict
    ELSE IF ~env.readable THEN EmptyDict
    ELSE Get(env.data, curve_id, EmptyDict)

\* ------------------------------------------------------------------------
\* ambient/ambient_correction.py
\* ------------------------------------------------------------------------

ISO_REFERENCE_TEMP_C == RInt(15)

\* apply_site_corrections that ignores reference_temp_C
apply_site_corrections_iso_reference(backend, ambient, corr_coeff) ==
    LET site_temp == Get(ambient, "Ta_C", ISO_REFERENCE_TEMP_C)
        delta_temp == RSub(site_temp, ISO_REFERENCE_TEMP_C)
        power_pct_per_K == Get(corr_coeff, "dPower_pct_per_K", RZero)
        flow_pct_per_K == Get(corr_coeff, "dFlow_pct_per_K", RZero)
        exhaust_delta_per_K == Get(corr_coeff, "dExhT_K_per_K", RZero)
        power_correction_pct == RMul(power_pct_per_K, delta_temp)
        flow_correction_pct == RMul(flow_pct_per_K, delta_temp)
        exhaust_delta_C == RMul(exhaust_delta_per_K, delta_temp)
        humid_air == humid_air_props(backend, site_temp,
                                     Get(ambient, "RH_pct", RInt(60)),
                                     Get(ambient, "P_bar", Rat(1013, 1000)))
    IN  [site_temperature_C |-> site_temp,
         delta_T_K |-> delta_temp,
         power_correction_pct |-> power_correction_pct,
         flow_correction_pct |-> flow_correction_pct,
         exhaust_temp_delta_C |-> exhaust_delta_C,
         power_multiplier |-> RAdd(ROne, RDiv(power_correction_pct, RInt(100))),
         flow_multiplier |-> RAdd(ROne, RDiv(flow_correction_pct, RInt(100))),
         humid_air |-> humid_air]

\* apply_site_corrections(ambient, corr_coeff), with the backend of humid_air_props
apply_site_corrections(backend, ambient, corr_coeff) ==
    LET site_temp == Get(ambient, "Ta_C", ISO_REFERENCE_TEMP_C)
        delta_temp == RSub(site_temp, Get(corr_coeff, "reference_temp_C", ISO_REFERENCE_TEMP_C))
        power_pct_per_K == Get(corr_coeff, "dPower_pct_per_K", RZero)
        flow_pct_per_K == Get(corr_coeff, "dFlow_pct_per_K", RZero)
        exhaust_delta_per_K == Get(corr_coeff, "dExhT_K_per_K", RZero)
        power_correction_pct == RMul(power_pct_per_K, delta_temp)
        flow_correction_pct == RMul(flow_pct_per_K, delta_temp)
        exhaust_delta_C == RMul(exhaust_delta_per_K, delta_temp)
        humid_air == humid_air_props(backend, site_temp,
                                     Get(ambient, "RH_pct", RInt(60)),
                                     Get(ambient, "P_bar", Rat(1013, 1000)))
    IN  [site_temperature_C |-> site_temp,
         delta_T_K |-> delta_temp,
         power_correction_pct |-> power_correction_pct,
         flow_correction_pct |-> flow_correction_pct,
         exhaust_temp_delta_C |-> exhaust_delta_C,
         power_multiplier |-> RAdd(ROne, RDiv(power_correction_pct, RInt(100))),
         flow_multiplier |-> RAdd(ROne, RDiv(flow_correction_pct, RInt(100))),
         humid_air |-> humid_air]

\* ------------------------------------------------------------------------
\* gt_block/gt_solver.py
\* ------------------------------------------------------------------------

\* the vendor-blend branch of solve_gt_block calls load_vendor_curve, and the
\* call raises: the vendor curve file is readable and holds no JSON object
gt_vendor_curve_raises(gas_turbine, env) ==
    /\ Has(gas_turbine, "performance_blend")
    /\ IsMapping(gas_turbine.performance_blend)
    /\ Get(gas_turbine.performance_blend, "mode", "linear") = "vendor_blend"
    /\ Has(gas_turbine.performance_blend, "vendor_curve_id")
    /\ env.path_set /\ env.readable /\ ~IsMapping(env.data)

\* gt_vendor_blend that ignores performance_blend and records no note
gt_vendor_blend_unnoted(gas_turbine, corrections, env) ==
    [power_multiplier |-> Get(corrections, "power_multiplier", ROne),
     flow_multiplier |-> Get(corrections, "flow_multiplier", ROne),
     exhaust_temp_delta |-> Get(corrections, "exhaust_temp_delta_C", RZero),
     vendor_notes |-> <<>>]

\* The vendor-blend branch of solve_gt_block: the multipliers and the exhaust
\* delta after blending, and the notes recorded.
gt_vendor_blend(gas_turbine, corrections, env) ==
    LET power_multiplier == Get(corrections, "power_multiplier", ROne)
        flow_multiplier == Get(corrections, "flow_multiplier", ROne)
        exhaust_temp_delta == Get(corrections, "exhaust_temp_delta_C", RZero)
        unblended == [power_multiplier |-> power_multiplier,
                      flow_multiplier |-> flow_multiplier,
                      exhaust_temp_delta |-> exhaust_temp_delta,
                      vendor_notes |-> <<>>]
    IN  IF ~(Has(gas_turbine, "performance_blend") /\ IsMapping(gas_turbine.performance_blend))
        THEN unblended
        ELSE
        LET blend_spec == gas_turbine.performance_blend
            mode == Get(blend_spec, "mode", "linear")
            blend_weight == Get(blend_spec, "blend_weight", ROne)
        IN  IF mode = "vendor_blend" /\ Has(blend_spec, "vendor_curve_id")
            THEN LET vendor_curve == load_vendor_curve(env, blend_spec.vendor_curve_id)
                 IN  IF DOMAIN vendor_curve # {}
                     THEN LET delta_power == RMul(Get(vendor_curve, "delta_power_pct", RZero), blend_weight)
                              delta_flow == RMul(Get(vendor_curve, "delta_flow_pct", RZero), blend_weight)
                              delta_exhaust == RMul(Get(vendor_curve, "delta_exhaust_temp_C", RZero), blend_weight)
                          IN  [power_multiplier |->
                                   RMul(power_multiplier, RAdd(ROne, RDiv(delta_power, RInt(100)))),
                               flow_multiplier |->
                                   RMul(flow_multiplier, RAdd(ROne, RDiv(delta_flow, RInt(100)))),
                               exhaust_temp_delta |-> RAdd(exhaust_temp_delta, delta_exhaust),
                               vendor_notes |-> <<>>]
                     ELSE [unblended EXCEPT !.vendor_notes =
                               <<[note |-> "not resolved", subject |-> blend_spec.vendor_curve_id]>>]
            ELSE IF mode \notin {"linear", "vendor_blend"}
            THEN [unblended EXCEPT !.vendor_notes =
                      <<[note |-> "unknown mode", subject |-> mode]>>]
            ELSE unblended

\* electric power, exhaust state and fuel of solve_gt_block from the blended
\* multipliers
gt_outputs(gas_turbine, blended) ==
    LET fuel_lhv_value == Get(gas_turbine, "fuel_LHV_kJ_per_kg", None)
    IN  Bind(RMul(Get(gas_turbine, "ISO_power_MW", RZero), blended.power_multiplier),
             LAMBDA electric_power :
        Bind(RDiv(RMul(Get(gas_turbine, "ISO_heat_rate_kJ_per_kWh", RZero), electric_power),
                  RInt(3600)), LAMBDA fuel_heat_input_mw :
            [electric_power |-> electric_power,
             exhaust_flow |-> RMul(Get(gas_turbine, "ISO_exhaust_flow_kg_s", RZero),
                                   blended.flow_multiplier),
             exhaust_temp |-> RAdd(Get(gas_turbine, "ISO_exhaust_temp_C", RZero),
                                   blended.exhaust_temp_delta),
             fuel_heat_input_mw |-> fuel_heat_input_mw,
             fuel_flow |-> IF fuel_lhv_value # None /\ RTruthy(fuel_lhv_value)
                           THEN RDiv(RMul(fuel_heat_input_mw, RInt(1000)), fuel_lhv_value)
                           ELSE None]))

\* result and trace of solve_gt_block from the values it has computed
gt_result_and_trace(gas_turbine, blended, out) ==
    <<[fuel_heat_input_MW_LHV |-> out.fuel_heat_input_mw,
       fuel_LHV_kJ_per_kg |-> Get(gas_turbine, "fuel_LHV_kJ_per_kg", None),
       fuel_flow_kg_s |-> out.fuel_flow,
       electric_power_MW |-> out.electric_power,
       exhaust |-> [temp_C |-> out.exhaust_temp, flow_kg_s |-> out.exhaust_flow],
       correction_summary |->
           [power_multiplier |-> blended.power_multiplier,
            flow_multiplier |-> blended.flow_multiplier,
            temperature_offset_C |-> blended.exhaust_temp_delta,
            vendor_blend |->
                IF Has(gas_turbine, "performance_blend")
                   /\ IsMapping(gas_turbine.performance_blend)
                THEN [mode |-> Get(gas_turbine.performance_blend, "mode", "None"),
                      vendor_curve_id |->
                          Get(gas_turbine.performance_blend, "vendor_curve_id", "None"),
                      notes |-> blended.vendor_notes]
                ELSE EmptyDict]],
      [iso_power_MW |-> Get(gas_turbine, "ISO_power_MW", RZero),
       iso_heat_rate_kJ_per_kWh |-> Get(gas_turbine, "ISO_heat_rate_kJ_per_kWh", RZero),
       iso_exhaust_temp_C |-> Get(gas_turbine, "ISO_exhaust_temp_C", RZero),
       iso_exhaust_flow_kg_s |-> Get(gas_turbine, "ISO_exhaust_flow_kg_s", RZero),
       power_multiplier |-> blended.power_multiplier,
       flow_multiplier |-> blended.flow_multiplier,
       exhaust_temp_delta_C |-> blended.exhaust_temp_delta,
       fuel_heat_input_calculation |->
           [heat_rate_kJ_per_kWh |-> Get(gas_turbine, "ISO_heat_rate_kJ_per_kWh", RZero),
            electric_power_MW |-> out.electric_power,
            fuel_heat_input_MW_LHV |-> out.fuel_heat_input_mw,
            fuel_LHV_kJ_per_kg |-> Get(gas_turbine, "fuel_LHV_kJ_per_kg", None),
            fuel_flow_kg_s |-> out.fuel_flow],
       vendor_notes |-> blended.vendor_notes]>>

\* solve_gt_block: <<result, trace>>
solve_gt_block(inputs, env) ==
    Bind(Get(inputs, "gas_turbine", EmptyDict), LAMBDA gas_turbine :
    IF gt_vendor_curve_raises(gas_turbine, env) THEN Raised("ValueError") ELSE
    Bind(gt_vendor_blend(gas_turbine, Get(inputs, "corrections", EmptyDict), env),
         LAMBDA blended :
    Bind(gt_outputs(gas_turbine, blended), LAMBDA out :
        gt_result_and_trace(gas_turbine, blended, out))))

\* ------------------------------------------------------------------------
\* hrsg_block/hrsg_solver.py
\* ------------------------------------------------------------------------

CP_EXHAUST_GAS_KJ_PER_KG_K == Rat(115, 100)

CP_FEEDWATER_KJ_PER_KG_K == Rat(4186, 1000)

LATENT_HEAT_KJ_PER_KG == RInt(2257)

DEFAULT_FEEDWATER_TEMP_C == RInt(95)

LEVEL_ORDER == <<"hp", "ip", "lp">>

\* the 1e-6 floor of the divisions
Tiny == Rat(1, 1000000)

_specific_energy_required(steam_temp_c, feedwater_temp_c) ==
    LET sensible == RMul(RMax(RSub(steam_temp_c, feedwater_temp_c), RZero),
                         CP_FEEDWATER_KJ_PER_KG_K)
    IN  RAdd(LATENT_HEAT_KJ_PER_KG, sensible)

\* hrsg_spec.get("constraints", {}).get(key, "enforce") when constraints is a
\* mapping, "enforce" otherwise
\* hrsg_constraint_mode with a mode that is not configured taken as advisory
hrsg_constraint_mode_advisory_default(hrsg_spec, key) ==
    IF Has(hrsg_spec, "constraints") /\ IsMapping(hrsg_spec.constraints)
    THEN Get(hrsg_spec.constraints, key, "advisory")
    ELSE "advisory"

hrsg_constraint_mode(hrsg_spec, key) ==
    IF Has(hrsg_spec, "constraints") /\ IsMapping(hrsg_spec.constraints)
    THEN Get(hrsg_spec.constraints, key, "enforce")
    ELSE "enforce"

\* hrsg_exhaust_flow with the bypass applied whatever its fraction
hrsg_exhaust_flow_unguarded(gt_exhaust, hrsg_spec) ==
    RMul(Get(gt_exhaust, "flow_kg_s", RZero),
         RSub(ROne, Get(Get(Get(hrsg_spec, "devices", EmptyDict), "bypass", EmptyDict),
                        "fraction", RZero)))

\* usable exhaust flow after the bypass
hrsg_exhaust_flow(gt_exhaust, hrsg_spec) ==
    LET exhaust_flow == Get(gt_exhaust, "flow_kg_s", RZero)
        bypass_fraction ==
            Get(Get(Get(hrsg_spec, "devices", EmptyDict), "bypass", EmptyDict), "fraction", RZero)
    IN  IF RLt(RZero, bypass_fraction) /\ RLt(bypass_fraction, ROne)
        THEN RMul(exhaust_flow, RSub(ROne, bypass_fraction))
        ELSE exhaust_flow

\* available heat and the stack temperature target after the duct burner:
\* [available_heat_kj_per_s, stack_temp_target]
hrsg_available_heat(gt_exhaust, hrsg_spec) ==
    LET exhaust_temp == Get(gt_exhaust, "temp_C", RZero)
        exhaust_flow == hrsg_exhaust_flow(gt_exhaust, hrsg_spec)
        stack_temp_target == Get(hrsg_spec, "stack_temp_min_C", RInt(90))
        delta_t == RMax(RSub(exhaust_temp, stack_temp_target), RZero)
        available_heat_kj_per_s == RMul(RMul(exhaust_flow, CP_EXHAUST_GAS_KJ_PER_KG_K), delta_t)
        devices == Get(hrsg_spec, "devices", EmptyDict)
    IN  IF Has(devices, "duct_burner") /\ IsMapping(devices.duct_burner)
        THEN LET duct_burner == devices.duct_burner
                 duty_mw == Get(duct_burner, "duty_MW", RZero)
             IN  [available_heat_kj_per_s |->
                      RAdd(available_heat_kj_per_s, RMul(duty_mw, RInt(1000))),
                  stack_temp_target |->
                      IF Has(duct_burner, "stack_temp_cap_C")
                      THEN RMin(stack_temp_target, duct_burner.stack_temp_cap_C)
                      ELSE stack_temp_target]
        ELSE [available_heat_kj_per_s |-> available_heat_kj_per_s,
              stack_temp_target |-> stack_temp_target]

\* energy_weights[level]
hrsg_energy_weight(hrsg_spec, level) ==
    LET feedwater_temp == Get(hrsg_spec, "feedwater_temp_C", DEFAULT_FEEDWATER_TEMP_C)
        level_spec == Get(hrsg_spec, level, EmptyDict)
        steam_temp_c == Get(level_spec, "steam_temp_C", feedwater_temp)
    IN  Bind(_specific_energy_required(steam_temp_c, feedwater_temp), LAMBDA energy_per_kg :
            [steam_temp_C |-> steam_temp_c,
             pressure_bar |-> Get(level_spec, "pressure_bar", RZero),
             energy_per_kg |-> energy_per_kg,
             weight |-> IF RLt(RZero, energy_per_kg) THEN RDiv(ROne, energy_per_kg) ELSE RZero])

\* the first loop over LEVEL_ORDER: energy_weights
hrsg_energy_weights(hrsg_spec) ==
    [level \in {"hp", "ip", "lp"} |-> hrsg_energy_weight(hrsg_spec, level)]

\* total_inverse with the weight of the LP level left out
hrsg_total_inverse_without_lp(energy_weights) ==
    RAdd(RAdd(RZero, energy_weights.hp.weight), energy_weights.ip.weight)

\* total_inverse as the first loop accumulates it, from 0.0 in LEVEL_ORDER
hrsg_total_inverse(energy_weights) ==
    RAdd(RAdd(RAdd(RZero, energy_weights.hp.weight), energy_weights.ip.weight),
         energy_weights.lp.weight)

\* one pass of the allocation loop: the calc_steps entry of a level
hrsg_calc_step(level_data, total_inverse, available_heat_kj_per_s, level) ==
    Bind(IF RLt(RZero, total_inverse) THEN RDiv(level_data.weight, total_inverse) ELSE RZero,
         LAMBDA weight_fraction :
    Bind(RMul(available_heat_kj_per_s, weight_fraction), LAMBDA heat_share :
        [level |-> level,
         weight_fraction |-> weight_fraction,
         heat_share_kJ_per_s |-> heat_share,
         specific_energy_kJ_per_kg |-> level_data.energy_per_kg,
         resulting_flow_kg_s |-> RDiv(heat_share, RMax(level_data.energy_per_kg, Tiny))]))

\* the allocation loop: calc_steps, keyed by level
hrsg_calc_steps(energy_weights, total_inverse, available_heat_kj_per_s) ==
    [level \in {"hp", "ip", "lp"} |->
        hrsg_calc_step(energy_weights[level], total_inverse, available_heat_kj_per_s, level)]

\* level_results before attemperation
hrsg_level_results(energy_weights, calc_steps) ==
    [level \in {"hp", "ip", "lp"} |->
        [steam_flow_kg_s |-> calc_steps[level].resulting_flow_kg_s,
         steam_P_bar |-> energy_weights[level].pressure_bar,
         steam_T_C |-> energy_weights[level].steam_temp_C]]

\* achievable_drop with the ratio of flow to limit in place of limit to flow
hrsg_achievable_drop_inverted(flow_limit, flow_rate, current_temp, target_temp) ==
    RMul(RMin(IF RTruthy(flow_limit) THEN RDiv(flow_rate, flow_limit) ELSE RZero, ROne),
         RSub(current_temp, target_temp))

\* line 106: achievable_drop
hrsg_achievable_drop(flow_limit, flow_rate, current_temp, target_temp) ==
    RMul(RMin(RDiv(flow_limit, flow_rate), ROne), RSub(current_temp, target_temp))

\* the test of line 108 without the 0.1 K tolerance
hrsg_limit_reached_no_tolerance(new_temp, target_temp) == RLt(target_temp, new_temp)

\* line 108: new_temp > target_temp + 0.1
hrsg_limit_reached(new_temp, target_temp) == RLt(RAdd(target_temp, Rat(1, 10)), new_temp)

\* one pass of the attemperator loop on st = [levels, warnings]
hrsg_attemperate(st, spec) ==
    IF ~(Has(spec, "target") /\ spec.target \in DOMAIN st.levels)
    THEN st
    ELSE
    LET target == spec.target
        target_temp == Get(spec, "steam_temp_C", st.levels[target].steam_T_C)
        flow_limit == Get(spec, "m_dot_max_kg_s", RZero)
        current_temp == st.levels[target].steam_T_C
        flow_rate == RMax(st.levels[target].steam_flow_kg_s, Tiny)
    IN  IF RLe(current_temp, target_temp)
        THEN [st EXCEPT !.warnings =
                 Append(@, format_warning("ATTEMP_NOT_REQUIRED", <<Upper(target)>>))]
        ELSE
        LET achievable_drop ==
                hrsg_achievable_drop(flow_limit, flow_rate, current_temp, target_temp)
            new_temp == RSub(current_temp, achievable_drop)
            warned == IF hrsg_limit_reached(new_temp, target_temp)
                      THEN Append(st.warnings,
                                  format_warning("ATTEMP_LIMIT_REACHED", <<Upper(target), target_temp>>))
                      ELSE st.warnings
        IN  [levels |-> [st.levels EXCEPT ![target].steam_T_C = RMax(target_temp, new_temp)],
             warnings |-> warned]

RECURSIVE hrsg_attemperators(_, _)
hrsg_attemperators(st, specs) ==
    IF specs = <<>> THEN st
    ELSE Bind(hrsg_attemperate(st, Head(specs)),
              LAMBDA sprayed : hrsg_attemperators(sprayed, Tail(specs)))

\* a - b as the pinch and approach checks compute it in binary floating
\* point. On the values the case sets use the difference is exact, except
\* 0.5 - 0.4: the double nearest to 0.4 lies over 0.4, and the difference
\* 0.09999999999999998 lies under the double nearest to 0.1.
FloatSub(a, b) ==
    IF a = Rat(1, 2) /\ b = Rat(2, 5) THEN Rat(99999999, 1000000000) ELSE RSub(a, b)

\* hrsg_check_level on the steam temperature configured for the level, the
\* one before the attemperators
hrsg_check_level_before_spray(st, hrsg_spec, case_constraints, levels, level) ==
    LET feedwater_temp == Get(hrsg_spec, "feedwater_temp_C", DEFAULT_FEEDWATER_TEMP_C)
        pinch_mode == hrsg_constraint_mode(hrsg_spec, "pinch_mode")
        approach_mode == hrsg_constraint_mode(hrsg_spec, "approach_mode")
        allow_relaxed_pinch == Get(case_constraints, "allow_relaxed_pinch", FALSE)
        spec == Get(hrsg_spec, level, EmptyDict)
        pinch_limit == Get(spec, "pinch_K", RZero)
        approach_limit == Get(spec, "approach_K", RZero)
        actual_pinch == RMax(FloatSub(RSub(Get(spec, "steam_temp_C", feedwater_temp), feedwater_temp), approach_limit), RZero)
        actual_approach == RMax(FloatSub(RSub(Get(spec, "steam_temp_C", feedwater_temp), feedwater_temp), pinch_limit), RZero)
        pinch_bad == RLt(actual_pinch, pinch_limit)
        approach_bad == RLt(actual_approach, approach_limit)
        w1 == IF pinch_bad
              THEN Append(st.warnings,
                          format_warning("HRSG_PINCH_VIOLATION", <<Upper(level), actual_pinch, pinch_limit>>))
              ELSE st.warnings
        c1 == IF pinch_bad /\ pinch_mode = "enforce" /\ ~allow_relaxed_pinch
              THEN FALSE ELSE st.converged
        w2 == IF approach_bad
              THEN Append(w1,
                          format_warning("HRSG_APPROACH_VIOLATION", <<Upper(level), actual_approach, approach_limit>>))
              ELSE w1
        c2 == IF approach_bad /\ approach_mode = "enforce" /\ ~allow_relaxed_pinch
              THEN FALSE ELSE c1
    IN  [converged |-> c2, warnings |-> w2]

\* hrsg_check_level without the approach check
hrsg_check_level_pinch_only(st, hrsg_spec, case_constraints, levels, level) ==
    LET feedwater_temp == Get(hrsg_spec, "feedwater_temp_C", DEFAULT_FEEDWATER_TEMP_C)
        pinch_mode == hrsg_constraint_mode(hrsg_spec, "pinch_mode")
        approach_mode == hrsg_constraint_mode(hrsg_spec, "approach_mode")
        allow_relaxed_pinch == Get(case_constraints, "allow_relaxed_pinch", FALSE)
        spec == Get(hrsg_spec, level, EmptyDict)
        pinch_limit == Get(spec, "pinch_K", RZero)
        approach_limit == Get(spec, "approach_K", RZero)
        actual_pinch == RMax(FloatSub(RSub(levels[level].steam_T_C, feedwater_temp), approach_limit), RZero)
        actual_approach == RMax(FloatSub(RSub(levels[level].steam_T_C, feedwater_temp), pinch_limit), RZero)
        pinch_bad == RLt(actual_pinch, pinch_limit)
        approach_bad == FALSE
        w1 == IF pinch_bad
              THEN Append(st.warnings,
                          format_warning("HRSG_PINCH_VIOLATION", <<Upper(level), actual_pinch, pinch_limit>>))
              ELSE st.warnings
        c1 == IF pinch_bad /\ pinch_mode = "enforce" /\ ~allow_relaxed_pinch
              THEN FALSE ELSE st.converged
        w2 == IF approach_bad
              THEN Append(w1,
                          format_warning("HRSG_APPROACH_VIOLATION", <<Upper(level), actual_approach, approach_limit>>))
              ELSE w1
        c2 == IF approach_bad /\ approach_mode = "enforce" /\ ~allow_relaxed_pinch
              THEN FALSE ELSE c1
    IN  [converged |-> c2, warnings |-> w2]

\* one pass of the pinch/approach loop on st = [converged, warnings]
hrsg_check_level(st, hrsg_spec, case_constraints, levels, level) ==
    LET feedwater_temp == Get(hrsg_spec, "feedwater_temp_C", DEFAULT_FEEDWATER_TEMP_C)
        pinch_mode == hrsg_constraint_mode(hrsg_spec, "pinch_mode")
        approach_mode == hrsg_constraint_mode(hrsg_spec, "approach_mode")
        allow_relaxed_pinch == Get(case_constraints, "allow_relaxed_pinch", FALSE)
        spec == Get(hrsg_spec, level, EmptyDict)
        pinch_limit == Get(spec, "pinch_K", RZero)
        approach_limit == Get(spec, "approach_K", RZero)
        actual_pinch == RMax(FloatSub(RSub(levels[level].steam_T_C, feedwater_temp), approach_limit), RZero)
        actual_approach == RMax(FloatSub(RSub(levels[level].steam_T_C, feedwater_temp), pinch_limit), RZero)
        pinch_bad == RLt(actual_pinch, pinch_limit)
        approach_bad == RLt(actual_approach, approach_limit)
        w1 == IF pinch_bad
              THEN Append(st.warnings,
                          format_warning("HRSG_PINCH_VIOLATION", <<Upper(level), actual_pinch, pinch_limit>>))
              ELSE st.warnings
        c1 == IF pinch_bad /\ pinch_mode = "enforce" /\ ~allow_relaxed_pinch
              THEN FALSE ELSE st.converged
        w2 == IF approach_bad
              THEN Append(w1,
                          format_warning("HRSG_APPROACH_VIOLATION", <<Upper(level), actual_approach, approach_limit>>))
              ELSE w1
        c2 == IF approach_bad /\ approach_mode = "enforce" /\ ~allow_relaxed_pinch
              THEN FALSE ELSE c1
    IN  [converged |-> c2, warnings |-> w2]

\* the stack check on st = [converged, warnings]
hrsg_check_stack(st, hrsg_spec, case_constraints, stack_temp_target) ==
    LET stack_mode == hrsg_constraint_mode(hrsg_spec, "stack_mode")
        allow_relaxed_stack == Get(case_constraints, "allow_relaxed_stack", FALSE)
    IN  IF RLt(stack_temp_target, Get(hrsg_spec, "stack_temp_min_C", stack_temp_target))
        THEN [converged |-> IF stack_mode = "enforce" /\ ~allow_relaxed_stack
                            THEN FALSE ELSE st.converged,
              warnings |-> Append(st.warnings,
                                  format_warning("HRSG_STACK_LOW", <<stack_temp_target>>))]
        ELSE st

\* the pinch/approach loop over the levels in order
RECURSIVE hrsg_check_levels(_, _, _, _, _)
hrsg_check_levels(st, hrsg_spec, case_constraints, levels, order) ==
    IF order = <<>> THEN st
    ELSE Bind(hrsg_check_level(st, hrsg_spec, case_constraints, levels, Head(order)),
              LAMBDA checked :
                  hrsg_check_levels(checked, hrsg_spec, case_constraints, levels, Tail(order)))

\* hrsg_result_and_trace with the devices left out of the trace
hrsg_result_and_trace_without_devices(gt_exhaust, hrsg_spec, heat, calc_steps, level_results, checked) ==
    <<[hp |-> level_results.hp,
       ip |-> level_results.ip,
       lp |-> level_results.lp,
       stack_temp_C |-> heat.stack_temp_target,
       available_heat_MW |-> RDiv(heat.available_heat_kj_per_s, RInt(1000)),
       iterations_used |-> 1,
       converged |-> checked.converged,
       warnings |-> checked.warnings],
      [exhaust_temp_C |-> Get(gt_exhaust, "temp_C", RZero),
       exhaust_flow_kg_s |-> hrsg_exhaust_flow(gt_exhaust, hrsg_spec),
       stack_temp_target_C |-> heat.stack_temp_target,
       available_heat_kJ_per_s |-> heat.available_heat_kj_per_s,
       feedwater_temp_C |-> Get(hrsg_spec, "feedwater_temp_C", DEFAULT_FEEDWATER_TEMP_C),
       level_calculations |-> [i \in 1..3 |-> calc_steps[LEVEL_ORDER[i]]],
       devices |-> EmptyDict,
       warnings |-> checked.warnings]>>

\* result and trace of solve_hrsg_block from the values it has computed
hrsg_result_and_trace(gt_exhaust, hrsg_spec, heat, calc_steps, level_results, checked) ==
    <<[hp |-> level_results.hp,
       ip |-> level_results.ip,
       lp |-> level_results.lp,
       stack_temp_C |-> heat.stack_temp_target,
       available_heat_MW |-> RDiv(heat.available_heat_kj_per_s, RInt(1000)),
       iterations_used |-> 1,
       converged |-> checked.converged,
       warnings |-> checked.warnings],
      [exhaust_temp_C |-> Get(gt_exhaust, "temp_C", RZero),
       exhaust_flow_kg_s |-> hrsg_exhaust_flow(gt_exhaust, hrsg_spec),
       stack_temp_target_C |-> heat.stack_temp_target,
       available_heat_kJ_per_s |-> heat.available_heat_kj_per_s,
       feedwater_temp_C |-> Get(hrsg_spec, "feedwater_temp_C", DEFAULT_FEEDWATER_TEMP_C),
       level_calculations |-> [i \in 1..3 |-> calc_steps[LEVEL_ORDER[i]]],
       devices |-> Get(hrsg_spec, "devices", EmptyDict),
       warnings |-> checked.warnings]>>

\* the attemperator list of the devices section
hrsg_attemperator_specs(hrsg_spec) ==
    IF Has(hrsg_spec, "devices") /\ IsMapping(hrsg_spec.devices)
    THEN Get(hrsg_spec.devices, "attemperators", <<>>)
    ELSE <<>>

\* lines 31 and 44 call .get on hrsg_spec.get("devices", {}) and line 31 on
\* its "bypass" entry without testing that they are mappings: a value that
\* is not a mapping has no such method
hrsg_devices_raise(hrsg_spec) ==
    \/ Has(hrsg_spec, "devices") /\ ~IsMapping(hrsg_spec.devices)
    \/ /\ Has(hrsg_spec, "devices") /\ Has(hrsg_spec.devices, "bypass")
       /\ ~IsMapping(hrsg_spec.devices.bypass)

\* solve_hrsg_block: <<result, trace>>, or the AttributeError it raises
solve_hrsg_block(context) ==
    LET gt_exhaust == Get(context, "gt_exhaust", EmptyDict)
        hrsg_spec == Get(context, "hrsg", EmptyDict)
        case_constraints == Get(context, "case_constraints", EmptyDict)
    IN  IF hrsg_devices_raise(hrsg_spec) THEN Raised("AttributeError") ELSE
        Bind(hrsg_available_heat(gt_exhaust, hrsg_spec), LAMBDA heat :
        Bind(hrsg_energy_weights(hrsg_spec), LAMBDA energy_weights :
        Bind(hrsg_calc_steps(energy_weights, hrsg_total_inverse(energy_weights),
                             heat.available_heat_kj_per_s), LAMBDA calc_steps :
        Bind(hrsg_attemperators([levels |-> hrsg_level_results(energy_weights, calc_steps),
                                 warnings |-> <<>>],
                                hrsg_attemperator_specs(hrsg_spec)), LAMBDA sprayed :
        Bind(hrsg_check_levels([converged |-> TRUE, warnings |-> sprayed.warnings],
                               hrsg_spec, case_constraints, sprayed.levels, LEVEL_ORDER),
             LAMBDA levels_checked :
        Bind(hrsg_check_stack(levels_checked, hrsg_spec, case_constraints,
                              heat.stack_temp_target), LAMBDA checked :
        hrsg_result_and_trace(gt_exhaust, hrsg_spec, heat, calc_steps,
                              sprayed.levels, checked)))))))

\* ------------------------------------------------------------------------
\* st_block/st_solver.py
\* ------------------------------------------------------------------------

CP_STEAM_KJ_PER_KG_K == Rat(208, 100)

MIN_DELTA_T_C == RInt(5)

\* math.log10 on the pressures whose logarithm is a whole number; the case
\* sets below keep the section pressures on these values
Log10(x) ==
    CASE x = Rat(1, 10) -> RInt(-1)
      [] x = Rat(1, 2) -> Rat(-30103, 100000)
      [] x = RInt(1) -> RInt(0)
      [] x = RInt(10) -> RInt(1)
      [] x = RInt(100) -> RInt(2)

_approx_saturation_temp(pressure_bar) ==
    IF RLe(pressure_bar, RZero) THEN RInt(25)
    ELSE RAdd(RInt(100), RMul(RInt(45), Log10(RMax(pressure_bar, Rat(5, 100)))))

_section_delta_h(steam_temp_c, exhaust_temp_c, efficiency) ==
    LET delta_t == RMax(RSub(steam_temp_c, exhaust_temp_c), MIN_DELTA_T_C)
        delta_h_iso == RMul(CP_STEAM_KJ_PER_KG_K, delta_t)
    IN  RMul(delta_h_iso, RMax(RMin(efficiency, ROne), RZero))

\* one turbine section: exhaust temperature, enthalpy drop and shaft power,
\* as the trace records them
st_section(level, exhaust_pressure_bar, efficiency) ==
    Bind(_approx_saturation_temp(exhaust_pressure_bar), LAMBDA exhaust_temp :
    Bind(_section_delta_h(Get(level, "steam_T_C", RZero), exhaust_temp, efficiency),
         LAMBDA delta_h :
        [inlet_temp_C |-> Get(level, "steam_T_C", RZero),
         exhaust_temp_C |-> exhaust_temp,
         delta_h_kJ_per_kg |-> delta_h,
         flow_kg_s |-> Get(level, "steam_flow_kg_s", RZero),
         power_MW_before_generator |->
             RDiv(RMul(Get(level, "steam_flow_kg_s", RZero), delta_h), RInt(1000))]))

\* the three sections, each expanding to the pressure of the next
st_sections(hrsg, steam_turbine_spec, condenser_spec) ==
    LET eff_hp == Get(steam_turbine_spec, "isentropic_eff_hp", Rat(88, 100))
        eff_ip == Get(steam_turbine_spec, "isentropic_eff_ip", eff_hp)
        eff_lp == Get(steam_turbine_spec, "isentropic_eff_lp", eff_ip)
        ip_pressure == Get(Get(hrsg, "ip", EmptyDict), "steam_P_bar", RZero)
        lp_pressure == Get(Get(hrsg, "lp", EmptyDict), "steam_P_bar", RZero)
        condenser_pressure_bar == kpa_to_bar(Get(condenser_spec, "vacuum_kPa_abs", RInt(8)))
    IN  [hp |-> st_section(Get(hrsg, "hp", EmptyDict), RMax(ip_pressure, ROne), eff_hp),
         ip |-> st_section(Get(hrsg, "ip", EmptyDict), RMax(lp_pressure, Rat(5, 10)), eff_ip),
         lp |-> st_section(Get(hrsg, "lp", EmptyDict),
                           RMax(condenser_pressure_bar, Rat(1, 10)), eff_lp)]

\* result and trace of solve_steam_turbine from the values it has computed
st_result_and_trace(hrsg, condenser_spec, mech_eff, sections, gross_mech_power) ==
    <<[hp_section |-> [inlet_P_bar |-> Get(Get(hrsg, "hp", EmptyDict), "steam_P_bar", RZero),
                       inlet_T_C |-> sections.hp.inlet_temp_C,
                       exhaust_P_bar |-> Get(Get(hrsg, "ip", EmptyDict), "steam_P_bar", RZero),
                       power_MW |-> RMul(sections.hp.power_MW_before_generator, mech_eff),
                       flow_kg_s |-> sections.hp.flow_kg_s],
       ip_section |-> [inlet_P_bar |-> Get(Get(hrsg, "ip", EmptyDict), "steam_P_bar", RZero),
                       inlet_T_C |-> sections.ip.inlet_temp_C,
                       exhaust_P_bar |-> Get(Get(hrsg, "lp", EmptyDict), "steam_P_bar", RZero),
                       power_MW |-> RMul(sections.ip.power_MW_before_generator, mech_eff),
                       flow_kg_s |-> sections.ip.flow_kg_s],
       lp_section |-> [inlet_P_bar |-> Get(Get(hrsg, "lp", EmptyDict), "steam_P_bar", RZero),
                       inlet_T_C |-> sections.lp.inlet_temp_C,
                       exhaust_kPa_abs |-> Get(condenser_spec, "vacuum_kPa_abs", RInt(8)),
                       power_MW |-> RMul(sections.lp.power_MW_before_generator, mech_eff),
                       flow_kg_s |-> sections.lp.flow_kg_s],
       gross_mech_power_MW |-> gross_mech_power,
       electric_power_MW |-> RMul(gross_mech_power, mech_eff),
       mech_elec_eff |-> mech_eff],
      [hp |-> sections.hp,
       ip |-> sections.ip,
       lp |-> sections.lp,
       mech_efficiency |-> mech_eff,
       electric_power_MW |-> RMul(gross_mech_power, mech_eff)]>>

\* solve_steam_turbine: <<result, trace>>
solve_steam_turbine(context) ==
    LET hrsg == Get(context, "hrsg", EmptyDict)
        steam_turbine_spec == Get(context, "steam_turbine", EmptyDict)
        condenser_spec == Get(context, "condenser", EmptyDict)
    IN  Bind(st_sections(hrsg, steam_turbine_spec, condenser_spec), LAMBDA sections :
            st_result_and_trace(hrsg, condenser_spec,
                                Get(steam_turbine_spec, "mech_elec_eff", Rat(985, 1000)),
                                sections,
                                RAdd(RAdd(sections.hp.power_MW_before_generator,
                                          sections.ip.power_MW_before_generator),
                                     sections.lp.power_MW_before_generator)))

\* ------------------------------------------------------------------------
\* condenser_loop/condenser_solver.py
\* ------------------------------------------------------------------------

CP_WATER_KJ_PER_KG_K == Rat(4186, 1000)

LATENT_CONDENSATION_KJ_PER_KG == RInt(2250)

\* thermal_balance_mw: the energy-balance residual as the solver uses it
condenser_thermal_balance(fuel_heat_input, gt_power, st_power) ==
    RMax(RSub(fuel_heat_input, RAdd(gt_power, st_power)), RZero)

\* baseline_heat_mw without the sensible component
condenser_baseline_heat_latent_only(lp_flow, sensible_drop) ==
    RDiv(RMul(lp_flow, LATENT_CONDENSATION_KJ_PER_KG), RInt(1000))

\* baseline_heat_mw: the bottom-up latent + sensible estimate
condenser_baseline_heat(lp_flow, sensible_drop) ==
    LET latent_component_kj_per_s == RMul(lp_flow, LATENT_CONDENSATION_KJ_PER_KG)
        sensible_component_kj_per_s == RMul(RMul(lp_flow, CP_WATER_KJ_PER_KG_K), sensible_drop)
        baseline_heat_kj_per_s == RAdd(latent_component_kj_per_s, sensible_component_kj_per_s)
    IN  RDiv(baseline_heat_kj_per_s, RInt(1000))

\* condensing_temp
condenser_condensing_temp(condenser_spec) ==
    RMax(RInt(25),
         RAdd(RInt(100),
              RMul(RInt(40),
                   RSub(kpa_to_bar(Get(condenser_spec, "vacuum_kPa_abs", RInt(8))),
                        Rat(1, 10)))))

\* heat_rejected_mw: the larger of the energy-balance residual and the
\* bottom-up estimate
condenser_heat_rejected(gt_block, st_block, lp_flow, sensible_drop) ==
    RMax(condenser_thermal_balance(Get(gt_block, "fuel_heat_input_MW_LHV", RZero),
                                   Get(gt_block, "electric_power_MW", RZero),
                                   Get(st_block, "electric_power_MW", RZero)),
         condenser_baseline_heat(lp_flow, sensible_drop))

\* result and trace of solve_condenser_loop from the values it has computed
condenser_result_and_trace(context, condensing_temp, sensible_drop, heat_rejected_mw, cw_mass_flow, cw_delta_temp) ==
    LET st_block == Get(context, "steam_turbine", EmptyDict)
        gt_block == Get(context, "gt_block", EmptyDict)
        lp_section == Get(st_block, "lp_section", EmptyDict)
        cw_inlet == Get(Get(context, "condenser", EmptyDict), "cw_inlet_C", RInt(20))
    IN  <<[cw_inlet_C |-> cw_inlet,
           cw_outlet_C |-> RAdd(cw_inlet, cw_delta_temp),
           heat_rejected_MW |-> heat_rejected_mw,
           condensing_temp_C |-> condensing_temp,
           lp_flow_kg_s |-> Get(lp_section, "flow_kg_s", RZero)],
          [lp_flow_kg_s |-> Get(lp_section, "flow_kg_s", RZero),
           lp_inlet_temp_C |-> Get(lp_section, "inlet_T_C", RZero),
           condensing_temp_C |-> condensing_temp,
           latent_heat_kJ_per_kg |-> LATENT_CONDENSATION_KJ_PER_KG,
           sensible_drop_C |-> sensible_drop,
           fuel_heat_input_MW |-> Get(gt_block, "fuel_heat_input_MW_LHV", RZero),
           electric_power_MW |-> RAdd(Get(gt_block, "electric_power_MW", RZero),
                                      Get(st_block, "electric_power_MW", RZero)),
           cw_mass_flow_kg_s |-> cw_mass_flow,
           cw_delta_T_C |-> cw_delta_temp,
           heat_rejected_MW |-> heat_rejected_mw]>>

\* solve_condenser_loop: <<result, trace>>
solve_condenser_loop(context) ==
    LET st_block == Get(context, "steam_turbine", EmptyDict)
        gt_block == Get(context, "gt_block", EmptyDict)
        lp_section == Get(st_block, "lp_section", EmptyDict)
        lp_flow == Get(lp_section, "flow_kg_s", RZero)
    IN  Bind(condenser_condensing_temp(Get(context, "condenser", EmptyDict)),
             LAMBDA condensing_temp :
        Bind(RMax(RSub(Get(lp_section, "inlet_T_C", RZero), condensing_temp), RZero),
             LAMBDA sensible_drop :
        Bind(condenser_heat_rejected(gt_block, st_block, lp_flow, sensible_drop),
             LAMBDA heat_rejected_mw :
        Bind(RMax(RMul(lp_flow, RInt(60)), ROne), LAMBDA cw_mass_flow :
        Bind(RDiv(RMul(heat_rejected_mw, RInt(1000)),
                  RMul(cw_mass_flow, CP_WATER_KJ_PER_KG_K)), LAMBDA cw_delta_temp :
            condenser_result_and_trace(context, condensing_temp, sensible_drop,
                                       heat_rejected_mw, cw_mass_flow, cw_delta_temp))))))

\* ------------------------------------------------------------------------
\* plant_summary/plant_summary.py
\* ------------------------------------------------------------------------

\* closure_error_pct without the absolute value
closure_error_signed(fuel_heat_input, expected_heat_out) ==
    IF RTruthy(fuel_heat_input)
    THEN RMul(RDiv(RSub(fuel_heat_input, expected_heat_out), fuel_heat_input), RInt(100))
    ELSE RZero

\* closure_error_pct
closure_error(fuel_heat_input, expected_heat_out) ==
    IF RTruthy(fuel_heat_input)
    THEN RMul(RDiv(RAbs(RSub(fuel_heat_input, expected_heat_out)), fuel_heat_input), RInt(100))
    ELSE RZero

\* convergence_ok from the closure error alone
summary_convergence_ok_closure_only(closure_error_pct, hrsg_block) ==
    RLe(closure_error_pct, Rat(3, 10))

\* convergence_ok with the closure limit taken as exclusive
summary_convergence_ok_strict(closure_error_pct, hrsg_block) ==
    RLt(closure_error_pct, Rat(3, 10)) /\ Get(hrsg_block, "converged", TRUE)

\* convergence_ok
summary_convergence_ok(closure_error_pct, hrsg_block) ==
    RLe(closure_error_pct, Rat(3, 10)) /\ Get(hrsg_block, "converged", TRUE)

\* summary_warnings with the near-limit warning starting at 0.3 itself
summary_warnings_from_limit(closure_error_pct, hrsg_block) ==
    LET w1 == IF RLt(Rat(5, 10), closure_error_pct)
              THEN <<format_warning("CLOSURE_GT_0P5", <<closure_error_pct>>)>>
              ELSE IF RLe(Rat(3, 10), closure_error_pct)
              THEN <<format_warning("CLOSURE_NEAR_LIMIT", <<closure_error_pct>>)>>
              ELSE <<>>
    IN  IF ~Get(hrsg_block, "converged", TRUE)
        THEN Append(w1, format_warning("HRSG_PINCH_VIOLATION", <<"See HRSG warnings">>))
        ELSE w1

\* the warnings list of summarize_plant
summary_warnings(closure_error_pct, hrsg_block) ==
    LET w1 == IF RLt(Rat(5, 10), closure_error_pct)
              THEN <<format_warning("CLOSURE_GT_0P5", <<closure_error_pct>>)>>
              ELSE IF RLt(Rat(3, 10), closure_error_pct)
              THEN <<format_warning("CLOSURE_NEAR_LIMIT", <<closure_error_pct>>)>>
              ELSE <<>>
    IN  IF ~Get(hrsg_block, "converged", TRUE)
        THEN Append(w1, format_warning("HRSG_PINCH_VIOLATION", <<"See HRSG warnings">>))
        ELSE w1

\* summary, mass_balance and trace of summarize_plant from the values it has
\* computed
summary_result(blocks, metadata, net_power, expected_heat_out, closure_error_pct) ==
    LET gt_block == Get(blocks, "gt_block", EmptyDict)
        hrsg_block == Get(blocks, "hrsg_block", EmptyDict)
        fuel_heat_input == Get(gt_block, "fuel_heat_input_MW_LHV", RZero)
        meta_defaults == Get(metadata, "meta", EmptyDict)
    IN  <<[GT_power_MW |-> Get(gt_block, "electric_power_MW", RZero),
           ST_power_MW |-> Get(Get(blocks, "st_block", EmptyDict), "electric_power_MW", RZero),
           AUX_load_MW |-> Get(Get(metadata, "bop", EmptyDict), "aux_load_MW", RZero),
           NET_power_MW |-> net_power,
           NET_eff_LHV_pct |-> IF RTruthy(fuel_heat_input)
                               THEN RMul(RDiv(net_power, fuel_heat_input), RInt(100))
                               ELSE RZero],
          [closure_error_pct |-> closure_error_pct,
           converged |-> summary_convergence_ok(closure_error_pct, hrsg_block),
           iterations_used |-> Get(hrsg_block, "iterations_used", 1)],
          [meta |-> [input_case |-> Get(meta_defaults, "input_case", "None"),
                     timestamp_utc |-> Get(meta_defaults, "timestamp_utc", 0),
                     solver_commit |-> Get(meta_defaults, "solver_commit", "None")],
           balance |-> [fuel_heat_input_MW |-> fuel_heat_input,
                        gt_power_MW |-> Get(gt_block, "electric_power_MW", RZero),
                        st_power_MW |->
                            Get(Get(blocks, "st_block", EmptyDict), "electric_power_MW", RZero),
                        condenser_heat_MW |->
                            Get(Get(blocks, "condenser_block", EmptyDict),
                                "heat_rejected_MW", RZero),
                        expected_heat_out_MW |-> expected_heat_out,
                        closure_error_pct |-> closure_error_pct],
           warnings |-> summary_warnings(closure_error_pct, hrsg_block)]>>

\* a + b as expected_heat_out is added up in binary floating point. On the
\* values of the cases the sum is exact, except for 220.741252 +
\* 272.59208133...: the residual the condenser has rounded does not add back
\* to the fuel heat input 493.33..., the sum lies one unit in the last place
\* (5.7e-14) over it. The unit in the last place stands as 1e-6 here.
FloatAdd(a, b) ==
    IF a = Rat(55185313, 250000) /\ b = Rat(204444061, 750000)
    THEN RAdd(RAdd(a, b), Rat(1, 1000000))
    ELSE RAdd(a, b)

\* summarize_plant: <<summary, mass_balance, trace>>
summarize_plant(blocks, metadata) ==
    LET gt_block == Get(blocks, "gt_block", EmptyDict)
        gt_power == Get(gt_block, "electric_power_MW", RZero)
        st_power == Get(Get(blocks, "st_block", EmptyDict), "electric_power_MW", RZero)
        condenser_heat ==
            Get(Get(blocks, "condenser_block", EmptyDict), "heat_rejected_MW", RZero)
    IN  Bind(RAdd(gt_power, st_power), LAMBDA gross_power :
        Bind(FloatAdd(gross_power, condenser_heat), LAMBDA expected_heat_out :
        Bind(closure_error(Get(gt_block, "fuel_heat_input_MW_LHV", RZero), expected_heat_out),
             LAMBDA closure_error_pct :
            summary_result(blocks, metadata,
                           RSub(gross_power,
                                Get(Get(metadata, "bop", EmptyDict), "aux_load_MW", RZero)),
                           expected_heat_out, closure_error_pct))))

\* ------------------------------------------------------------------------
\* Case data the pipeline is run on
\* ------------------------------------------------------------------------
\* All three pressure levels share one superheat (steam 595 C over feedwater
\* 95 C, 4350 kJ/kg) and the exhaust flow is a multiple of it, which keeps
\* every rational of a run within the integers of the model checker.

HrsgLevel(pressure) ==
    [pressure_bar |-> RInt(pressure), steam_temp_C |-> RInt(595),
     pinch_K |-> RInt(10), approach_K |-> RInt(5)]

\* an attemperator that sprays the HP steam down to 108 C: 13 K over the
\* feedwater, an actual pinch of 8 K against the limit of 10 K
SprayToPinch ==
    [target |-> "hp", steam_temp_C |-> RInt(108), m_dot_max_kg_s |-> RInt(1000)]

\* a duct burner whose stack cap lies under stack_temp_min_C
DuctBurnerLowStack == [duty_MW |-> Rat(1305, 100), stack_temp_cap_C |-> RInt(80)]

HrsgScenarios == {"plain", "pinch", "stack", "pinch_advisory"}

HrsgSpec(scenario) ==
    LET base == [hp |-> HrsgLevel(100), ip |-> HrsgLevel(10), lp |-> HrsgLevel(1),
                 stack_temp_min_C |-> RInt(90), feedwater_temp_C |-> RInt(95)]
    IN  CASE scenario = "plain" -> base
          [] scenario = "pinch" ->
                 base @@ [devices |-> [attemperators |-> <<SprayToPinch>>]]
          [] scenario = "stack" ->
                 base @@ [devices |-> [duct_burner |-> DuctBurnerLowStack]]
          [] scenario = "pinch_advisory" ->
                 base @@ [devices |-> [attemperators |-> <<SprayToPinch>>],
                          constraints |-> [pinch_mode |-> "advisory",
                                           approach_mode |-> "advisory"]]

BlendChoices == {"none", "vendor", "unknown_mode"}

GasTurbine(blend) ==
    LET base == [ISO_power_MW |-> RInt(300),
                 ISO_heat_rate_kJ_per_kWh |-> RInt(9000),
                 ISO_exhaust_temp_C |-> RInt(590),
                 ISO_exhaust_flow_kg_s |-> RInt(522),
                 fuel_LHV_kJ_per_kg |-> RInt(50000),
                 corr_coeff |-> [dPower_pct_per_K |-> RInt(-1),
                                 dFlow_pct_per_K |-> RInt(-1),
                                 dExhT_K_per_K |-> RInt(2)]]
    IN  CASE blend = "none" -> base
          [] blend = "vendor" ->
                 base @@ [performance_blend |->
                              [mode |-> "vendor_blend", blend_weight |-> RInt(1),
                               vendor_curve_id |-> "A"]]
          [] blend = "unknown_mode" ->
                 base @@ [performance_blend |-> [mode |-> "spline"]]

RelaxChoices == {"none", "relaxed"}

CaseData(ta, blend, scenario, relax) ==
    LET base == [ambient |-> [Ta_C |-> RInt(ta), RH_pct |-> RInt(60), P_bar |-> Rat(1013, 1000)],
                 gas_turbine |-> GasTurbine(blend),
                 hrsg |-> HrsgSpec(scenario),
                 steam_turbine |-> [isentropic_eff_hp |-> Rat(9, 10),
                                    mech_elec_eff |-> Rat(95, 100)],
                 condenser |-> [vacuum_kPa_abs |-> RInt(10), cw_inlet_C |-> RInt(20)],
                 bop |-> [aux_load_MW |-> RInt(5)],
                 meta |-> [input_case |-> "case.json"]]
    IN  IF relax = "relaxed"
        THEN base @@ [case_constraints |-> [allow_relaxed_pinch |-> TRUE,
                                            allow_relaxed_stack |-> TRUE]]
        ELSE base

\* the plain case with a section of hrsg that is not a mapping (a list, a
\* string, null)
CaseMalformed(section) ==
    [CaseData(15, "none", "plain", "none") EXCEPT
        !.hrsg = [k \in {section} |-> [not_a_mapping |-> TRUE]] @@ @]

\* the plain case without the optional fuel_LHV_kJ_per_kg
CaseWithoutFuelLHV ==
    [CaseData(15, "none", "plain", "none") EXCEPT
        !.gas_turbine = [key \in DOMAIN @ \ {"fuel_LHV_kJ_per_kg"} |-> @[key]]]

\* a site at 215 C: the corrections of -1 %/K over 200 K leave a power and a
\* flow multiplier of -1
CaseHotSite == CaseData(215, "none", "plain", "none")

\* a bypass fraction outside (0, 1)
CaseOverBypass ==
    [CaseData(15, "none", "plain", "none") EXCEPT
        !.hrsg = @ @@ [devices |-> [bypass |-> [fraction |-> Rat(3, 2)]]]]

\* every HRSG scenario with and without the case-level relaxation, every
\* blend choice, and a cold day (-10 C) beside the ISO day; a small gas
\* turbine (100 MW at 9000 kJ/kWh) whose energy-balance residual lies under
\* the condenser's bottom-up estimate, and one (160 MW at 11100 kJ/kWh)
\* whose heat balance does not add up exactly in floating point
Cases ==
    {CaseData(15, "none", scenario, relax) :
        scenario \in HrsgScenarios, relax \in RelaxChoices}
    \cup {CaseData(15, blend, "plain", "none") : blend \in BlendChoices}
    \cup {CaseData(-10, "none", "plain", "none"),
          CaseData(-10, "vendor", "pinch", "relaxed")}
    \cup {CaseWithoutFuelLHV, CaseHotSite, CaseOverBypass}
    \cup {EmptyDict, CaseMalformed("devices"), CaseMalformed("constraints")}
    \cup {[CaseData(15, "none", "plain", "none") EXCEPT
               !.gas_turbine.ISO_power_MW = RInt(gt[1]),
               !.gas_turbine.ISO_heat_rate_kJ_per_kWh = RInt(gt[2])] :
             gt \in {<<100, 9000>>, <<160, 11100>>}}

\* what HBD_VENDOR_CURVE_PATH and the file it names can hold
VendorEnvs ==
    {[path_set |-> FALSE, readable |-> FALSE, data |-> EmptyDict],
     [path_set |-> TRUE, readable |-> FALSE, data |-> EmptyDict],
     [path_set |-> TRUE, readable |-> TRUE,
      data |-> [A |-> [delta_power_pct |-> RInt(2), delta_flow_pct |-> RInt(0),
                       delta_exhaust_temp_C |-> RInt(50)]]],
     [path_set |-> TRUE, readable |-> TRUE,
      data |-> [A |-> [delta_power_pct |-> RInt(-2), delta_flow_pct |-> RInt(0),
                       delta_exhaust_temp_C |-> RInt(0)]]],
     [path_set |-> TRUE, readable |-> TRUE, data |-> [not_a_mapping |-> TRUE]]}

Backends == {"coolprop", "iapws"}

GitHeads == {"unknown", "abc123"}

\* ------------------------------------------------------------------------
\* pipeline.py: run_pipeline as a state machine
\* ------------------------------------------------------------------------

VARIABLES
    case_data,          \* the merged case the run is called with
    backend,            \* BACKEND of physical_props, fixed at import
    progress_callback,  \* TRUE when a progress notifier is supplied
    cancel_event,       \* TRUE when a cancel Event is supplied
    cancel_flag,        \* the Event's flag
    pc,                 \* "check", "stage", "notify", "assemble", "done", "cancelled"
    stage,              \* the stage (1..6) the run is at
    context,            \* the arguments of the stage call being executed
    locals,             \* ambient_trace, gt_result, gt_trace, ... of the run
    artifacts,          \* <<>> or <<PipelineArtifacts>>: what the call returned
    progress,           \* the (step, fraction) pairs the notifier received
    events,             \* history: stage calls and returns of the run
    cancel_at,          \* history: <<>> or <<pc, stage>> when the flag was set
    vendor_env,         \* HBD_VENDOR_CURVE_PATH and the file it names
    env_seen,           \* history: <<>> or <<vendor_env>> the GT stage read
    clock,              \* datetime.now, to the second
    git_head,           \* what git rev-parse HEAD answers
    run,                \* number of the run
    prev,               \* <<>> or <<artifacts, env_seen>> of the last completed run
    call,               \* a single call of one solver function: [fn, input, output]
    model,              \* the CaseModel of the GUI: its fields and what its bus published
    log                 \* history: the calls made on the CaseModel and its state after each

pipeline_vars ==
    <<case_data, backend, progress_callback, cancel_event, cancel_flag, pc, stage,
      context, locals, artifacts, progress, events, cancel_at, vendor_env,
      env_seen, clock, git_head, run, prev>>

vars == <<pipeline_vars, call, model, log>>

MaxRuns == 2

NumStages == 6

StageName(k) ==
    CASE k = 1 -> "ambient"
      [] k = 2 -> "gt_block"
      [] k = 3 -> "hrsg_block"
      [] k = 4 -> "st_block"
      [] k = 5 -> "condenser_block"
      [] k = 6 -> "summary"

\* the step label and fraction of the _notify call after stage k
StageLabel(k) ==
    CASE k = 1 -> "Ambient corrections"
      [] k = 2 -> "Gas turbine"
      [] k = 3 -> "HRSG"
      [] k = 4 -> "Steam turbine"
      [] k = 5 -> "Condenser loop"
      [] k = 6 -> "Summary"

\* StageFraction with the HRSG stage reporting 0.90, over the two stages
\* that follow it
StageFractionOutOfOrder(k) ==
    CASE k = 1 -> Rat(15, 100)
      [] k = 2 -> Rat(30, 100)
      [] k = 3 -> Rat(90, 100)
      [] k = 4 -> Rat(70, 100)
      [] k = 5 -> Rat(85, 100)
      [] k = 6 -> RInt(1)

StageFraction(k) ==
    CASE k = 1 -> Rat(15, 100)
      [] k = 2 -> Rat(30, 100)
      [] k = 3 -> Rat(50, 100)
      [] k = 4 -> Rat(70, 100)
      [] k = 5 -> Rat(85, 100)
      [] k = 6 -> RInt(1)

\* max(0.0, min(1.0, fraction))
ClampFraction(fraction) == RMax(RZero, RMin(ROne, fraction))

\* lines 90-95: the sections of the case
CaseSection(cd, key) == Get(cd, key, EmptyDict)

\* PipelineContext with the ST stage handed the hrsg section of the case in
\* place of the HRSG result
PipelineContextCaseHrsg(k, cd, loc, now, commit) ==
    CASE k = 1 -> [ambient |-> CaseSection(cd, "ambient"),
                   corr_coeff |-> Get(CaseSection(cd, "gas_turbine"), "corr_coeff", EmptyDict)]
      [] k = 2 -> [ambient |-> CaseSection(cd, "ambient"),
                   gas_turbine |-> CaseSection(cd, "gas_turbine"),
                   corrections |-> loc.ambient_trace]
      [] k = 3 -> [gt_exhaust |-> loc.gt_result.exhaust,
                   hrsg |-> CaseSection(cd, "hrsg"),
                   ambient |-> CaseSection(cd, "ambient")]
      [] k = 4 -> [hrsg |-> CaseSection(cd, "hrsg"),
                   steam_turbine |-> CaseSection(cd, "steam_turbine"),
                   condenser |-> CaseSection(cd, "condenser")]
      [] k = 5 -> [steam_turbine |-> loc.st_result,
                   condenser |-> CaseSection(cd, "condenser"),
                   gt_block |-> loc.gt_result]
      [] k = 6 -> [blocks |-> [gt_block |-> loc.gt_result,
                               hrsg_block |-> loc.hrsg_result,
                               st_block |-> loc.st_result,
                               condenser_block |-> loc.condenser_result],
                   metadata |-> [bop |-> CaseSection(cd, "bop"),
                                 meta |-> [input_case |->
                                               Get(Get(cd, "meta", EmptyDict), "input_case", "None"),
                                           timestamp_utc |-> now,
                                           solver_commit |-> commit]]]

\* PipelineContext with the condenser stage handed the fuel heat input
\* calculation of the GT trace in place of the GT result
PipelineContextTraceFed(k, cd, loc, now, commit) ==
    CASE k = 1 -> [ambient |-> CaseSection(cd, "ambient"),
                   corr_coeff |-> Get(CaseSection(cd, "gas_turbine"), "corr_coeff", EmptyDict)]
      [] k = 2 -> [ambient |-> CaseSection(cd, "ambient"),
                   gas_turbine |-> CaseSection(cd, "gas_turbine"),
                   corrections |-> loc.ambient_trace]
      [] k = 3 -> [gt_exhaust |-> loc.gt_result.exhaust,
                   hrsg |-> CaseSection(cd, "hrsg"),
                   ambient |-> CaseSection(cd, "ambient")]
      [] k = 4 -> [hrsg |-> loc.hrsg_result,
                   steam_turbine |-> CaseSection(cd, "steam_turbine"),
                   condenser |-> CaseSection(cd, "condenser")]
      [] k = 5 -> [steam_turbine |-> loc.st_result,
                   condenser |-> CaseSection(cd, "condenser"),
                   gt_block |-> Get(loc.gt_trace, "fuel_heat_input_calculation", EmptyDict)]
      [] k = 6 -> [blocks |-> [gt_block |-> loc.gt_result,
                               hrsg_block |-> loc.hrsg_result,
                               st_block |-> loc.st_result,
                               condenser_block |-> loc.condenser_result],
                   metadata |-> [bop |-> CaseSection(cd, "bop"),
                                 meta |-> [input_case |->
                                               Get(Get(cd, "meta", EmptyDict), "input_case", "None"),
                                           timestamp_utc |-> now,
                                           solver_commit |-> commit]]]

\* the arguments run_pipeline builds for stage k from the case and from the
\* results it holds
PipelineContext(k, cd, loc, now, commit) ==
    CASE k = 1 -> [ambient |-> CaseSection(cd, "ambient"),
                   corr_coeff |-> Get(CaseSection(cd, "gas_turbine"), "corr_coeff", EmptyDict)]
      [] k = 2 -> [ambient |-> CaseSection(cd, "ambient"),
                   gas_turbine |-> CaseSection(cd, "gas_turbine"),
                   corrections |-> loc.ambient_trace]
      [] k = 3 -> [gt_exhaust |-> loc.gt_result.exhaust,
                   hrsg |-> CaseSection(cd, "hrsg"),
                   ambient |-> CaseSection(cd, "ambient")]
      [] k = 4 -> [hrsg |-> loc.hrsg_result,
                   steam_turbine |-> CaseSection(cd, "steam_turbine"),
                   condenser |-> CaseSection(cd, "condenser")]
      [] k = 5 -> [steam_turbine |-> loc.st_result,
                   condenser |-> CaseSection(cd, "condenser"),
                   gt_block |-> loc.gt_result]
      [] k = 6 -> [blocks |-> [gt_block |-> loc.gt_result,
                               hrsg_block |-> loc.hrsg_result,
                               st_block |-> loc.st_result,
                               condenser_block |-> loc.condenser_result],
                   metadata |-> [bop |-> CaseSection(cd, "bop"),
                                 meta |-> [input_case |->
                                               Get(Get(cd, "meta", EmptyDict), "input_case", "None"),
                                           timestamp_utc |-> now,
                                           solver_commit |-> commit]]]

\* the call of stage k raises
StageRaises(k, ctx, env) ==
    \/ k = 2 /\ gt_vendor_curve_raises(Get(ctx, "gas_turbine", EmptyDict), env)
    \/ k = 3 /\ hrsg_devices_raise(Get(ctx, "hrsg", EmptyDict))

\* what stage k binds in the frame of run_pipeline
StageBindings(k, ctx, be, env) ==
    CASE k = 1 -> [ambient_trace |-> apply_site_corrections(be, ctx.ambient, ctx.corr_coeff)]
      [] k = 2 -> LET r == solve_gt_block(ctx, env)
                  IN  [gt_result |-> r[1], gt_trace |-> r[2]]
      [] k = 3 -> LET r == solve_hrsg_block(ctx)
                  IN  [hrsg_result |-> r[1], hrsg_trace |-> r[2]]
      [] k = 4 -> LET r == solve_steam_turbine(ctx)
                  IN  [st_result |-> r[1], st_trace |-> r[2]]
      [] k = 5 -> LET r == solve_condenser_loop(ctx)
                  IN  [condenser_result |-> r[1], condenser_trace |-> r[2]]
      [] k = 6 -> LET r == summarize_plant(ctx.blocks, ctx.metadata)
                  IN  [summary |-> r[1], mass_balance |-> r[2], summary_trace |-> r[3]]

\* AssembleArtifacts with the time of the run stamped on the balance
AssembleArtifactsStamped(cd, loc) ==
    [result |-> [summary |-> loc.summary,
                 gt_block |-> loc.gt_result,
                 hrsg_block |-> loc.hrsg_result,
                 st_block |-> loc.st_result,
                 condenser_block |-> loc.condenser_result,
                 mass_energy_balance |->
                     loc.mass_balance @@
                     [computed_at |-> loc.summary_trace.meta.timestamp_utc],
                 meta |-> [input_case |-> loc.summary_trace.meta.input_case,
                           solver_commit |-> loc.summary_trace.meta.solver_commit,
                           timestamp_utc |-> loc.summary_trace.meta.timestamp_utc,
                           warnings |-> loc.summary_trace.warnings]],
     trace |-> [ambient |-> loc.ambient_trace,
                gt_block |-> loc.gt_trace,
                hrsg_block |-> loc.hrsg_trace,
                st_block |-> loc.st_trace,
                condenser_block |-> loc.condenser_trace,
                summary |-> loc.summary_trace],
     merged_case |-> cd]

\* lines 160-185: the PipelineArtifacts the run returns
AssembleArtifacts(cd, loc) ==
    [result |-> [summary |-> loc.summary,
                 gt_block |-> loc.gt_result,
                 hrsg_block |-> loc.hrsg_result,
                 st_block |-> loc.st_result,
                 condenser_block |-> loc.condenser_result,
                 mass_energy_balance |-> loc.mass_balance,
                 meta |-> [input_case |-> loc.summary_trace.meta.input_case,
                           solver_commit |-> loc.summary_trace.meta.solver_commit,
                           timestamp_utc |-> loc.summary_trace.meta.timestamp_utc,
                           warnings |-> loc.summary_trace.warnings]],
     trace |-> [ambient |-> loc.ambient_trace,
                gt_block |-> loc.gt_trace,
                hrsg_block |-> loc.hrsg_trace,
                st_block |-> loc.st_trace,
                condenser_block |-> loc.condenser_trace,
                summary |-> loc.summary_trace],
     merged_case |-> cd]

\* deep_merge and merge_case_with_defaults work on dictionaries as objects:
\* heap is the sequence of the dictionaries in memory, a dictionary's address
\* is its index.  A value held under a key is a reference [ref |-> address]
\* to a dictionary (a Mapping) or a value that is not a mapping.
Scalar(v) == [not_a_mapping |-> TRUE, value |-> v]

Ref(address) == [ref |-> address]

\* d[key] = value
SetItem(d, key, value) == [k \in DOMAIN d \cup {key} |-> IF k = key THEN value ELSE d[k]]

\* the order in which override.items() yields the keys
KeyOrder == <<"a", "b", "c", "d", "x", "y", "z">>

\* merged = base: no copy is taken
dict_alias(heap, base) == [heap |-> heap, ref |-> base]

\* merged = dict(base): a new dictionary with the items of base
dict_copy(heap, base) == [heap |-> Append(heap, heap[base]), ref |-> Len(heap) + 1]

RECURSIVE deep_merge(_, _, _)
RECURSIVE deep_merge_items(_, _, _, _)

\* the loop body with the else branch only: merged[key] = value
deep_merge_item_wholesale(heap, merged, key, value) ==
    [heap EXCEPT ![merged] = SetItem(@, key, value)]

\* the loop body for one item of override
deep_merge_item(heap, merged, key, value) ==
    IF key \in DOMAIN heap[merged] /\ IsMapping(heap[merged][key]) /\ IsMapping(value)
    THEN Bind(deep_merge(heap, heap[merged][key].ref, value.ref), LAMBDA inner :
             [inner.heap EXCEPT ![merged] = SetItem(@, key, Ref(inner.ref))])
    ELSE [heap EXCEPT ![merged] = SetItem(@, key, value)]

\* for key, value in override.items(): the heap after the loop
deep_merge_items(heap, merged, override, keys) ==
    IF keys = <<>> THEN heap
    ELSE IF Head(keys) \in DOMAIN heap[override]
         THEN Bind(deep_merge_item(heap, merged, Head(keys), heap[override][Head(keys)]),
                   LAMBDA after : deep_merge_items(after, merged, override, Tail(keys)))
         ELSE deep_merge_items(heap, merged, override, Tail(keys))

\* deep_merge(base, override): the heap after the call and the address of
\* the dictionary it returns
deep_merge(heap, base, override) ==
    Bind(dict_copy(heap, base), LAMBDA merged :
        [heap |-> deep_merge_items(merged.heap, merged.ref, override, KeyOrder),
         ref |-> merged.ref])

merge_case_with_defaults(heap, case_data_ref, defaults) == deep_merge(heap, defaults, case_data_ref)

NoCall == [fn |-> "none"]

\* no CaseModel is constructed
NoModel == [max_history |-> 0]

Init ==
    /\ case_data \in Cases
    /\ backend \in Backends
    /\ progress_callback \in BOOLEAN
    /\ cancel_event \in BOOLEAN
    /\ cancel_flag = FALSE
    /\ pc = "check"
    /\ stage = 1
    /\ context = EmptyDict
    /\ locals = EmptyDict
    /\ artifacts = <<>>
    /\ progress = <<>>
    /\ events = <<>>
    /\ cancel_at = <<>>
    /\ vendor_env \in VendorEnvs
    /\ env_seen = <<>>
    /\ clock = 0
    /\ git_head = "abc123"
    /\ run = 1
    /\ prev = <<>>
    /\ call = NoCall
    /\ model = NoModel
    /\ log = <<>>

\* CheckCancel without the test of the flag: the stage is always called
CheckCancelNeverRaises ==
    /\ pc = "check"
    /\ pc' = "stage"
    /\ context' = PipelineContext(stage, case_data, locals, clock, git_head)
    /\ events' = Append(events, <<"call", stage>>)
    /\ UNCHANGED <<case_data, backend, progress_callback, cancel_event, cancel_flag,
                   stage, locals, artifacts, progress, cancel_at, vendor_env,
                   env_seen, clock, git_head, run, prev, call, model, log>>

\* _check_cancel() at the boundary before stage k, and the call of the stage
\* when the flag is not set
CheckCancel ==
    /\ pc = "check"
    /\ IF cancel_event /\ cancel_flag
       THEN /\ pc' = "cancelled"
            /\ UNCHANGED <<context, events>>
       ELSE /\ pc' = "stage"
            /\ context' = PipelineContext(stage, case_data, locals, clock, git_head)
            /\ events' = Append(events, <<"call", stage>>)
    /\ UNCHANGED <<case_data, backend, progress_callback, cancel_event, cancel_flag,
                   stage, locals, artifacts, progress, cancel_at, vendor_env,
                   env_seen, clock, git_head, run, prev, call, model, log>>

\* RunStage with the stage polling the cancel signal itself and giving up
RunStageInterruptible ==
    /\ pc = "stage"
    /\ IF cancel_event /\ cancel_flag
       THEN /\ pc' = "cancelled"
            /\ UNCHANGED <<locals, events, env_seen>>
       ELSE IF StageRaises(stage, context, vendor_env)
       THEN /\ pc' = "failed"
            /\ UNCHANGED <<locals, events, env_seen>>
       ELSE /\ locals' = StageBindings(stage, context, backend, vendor_env) @@ locals
            /\ events' = Append(events, <<"return", stage>>)
            /\ env_seen' = IF stage = 2 THEN <<vendor_env>> ELSE env_seen
            /\ pc' = "notify"
    /\ UNCHANGED <<case_data, backend, progress_callback, cancel_event, cancel_flag,
                   stage, context, artifacts, progress, cancel_at, vendor_env,
                   clock, git_head, run, prev, call, model, log>>

\* the stage executes and returns, or raises: the exception leaves
\* run_pipeline, which catches nothing
RunStage ==
    /\ pc = "stage"
    /\ IF StageRaises(stage, context, vendor_env)
       THEN /\ pc' = "failed"
            /\ UNCHANGED <<locals, events, env_seen>>
       ELSE /\ locals' = StageBindings(stage, context, backend, vendor_env) @@ locals
            /\ events' = Append(events, <<"return", stage>>)
            /\ env_seen' = IF stage = 2 THEN <<vendor_env>> ELSE env_seen
            /\ pc' = "notify"
    /\ UNCHANGED <<case_data, backend, progress_callback, cancel_event, cancel_flag,
                   stage, context, artifacts, progress, cancel_at, vendor_env,
                   clock, git_head, run, prev, call, model, log>>

\* _notify(step, fraction) after stage k
Notify ==
    /\ pc = "notify"
    /\ progress' = IF progress_callback
                   THEN Append(progress, <<StageLabel(stage), ClampFraction(StageFraction(stage))>>)
                   ELSE progress
    /\ IF stage < NumStages
       THEN pc' = "check" /\ stage' = stage + 1
       ELSE pc' = "assemble" /\ stage' = stage
    /\ UNCHANGED <<case_data, backend, progress_callback, cancel_event, cancel_flag,
                   context, locals, artifacts, events, cancel_at, vendor_env,
                   env_seen, clock, git_head, run, prev, call, model, log>>

\* result and trace are assembled and the PipelineArtifacts returned
Assemble ==
    /\ pc = "assemble"
    /\ artifacts' = <<AssembleArtifacts(case_data, locals)>>
    /\ pc' = "done"
    /\ UNCHANGED <<case_data, backend, progress_callback, cancel_event, cancel_flag,
                   stage, context, locals, progress, events, cancel_at, vendor_env,
                   env_seen, clock, git_head, run, prev, call, model, log>>

Running == pc \in {"check", "stage", "notify", "assemble"}

\* another thread calls cancel_event.set() while the run is in progress
SetCancel ==
    /\ cancel_event
    /\ ~cancel_flag
    /\ Running
    /\ cancel_flag' = TRUE
    /\ cancel_at' = <<pc, stage>>
    /\ UNCHANGED <<case_data, backend, progress_callback, cancel_event, pc, stage,
                   context, locals, artifacts, progress, events, vendor_env,
                   env_seen, clock, git_head, run, prev, call, model, log>>

\* the environment variable or the vendor curve file changes; a change after
\* the GT stage has read the source is not observable by this run and is
\* taken before the read of the next run
EnvChange ==
    /\ env_seen = <<>>
    /\ \E e \in VendorEnvs \ {vendor_env} : vendor_env' = e
    /\ UNCHANGED <<case_data, backend, progress_callback, cancel_event, cancel_flag,
                   pc, stage, context, locals, artifacts, progress, events,
                   cancel_at, env_seen, clock, git_head, run, prev, call, model, log>>

\* the caller runs the pipeline again on the same, unchanged case data; the
\* clock and the repository HEAD may have moved
NextRun ==
    /\ pc = "done"
    /\ run < MaxRuns
    /\ run' = run + 1
    /\ prev' = <<artifacts[1], env_seen[1]>>
    /\ \E now \in {clock, clock + 1} : clock' = now
    /\ \E h \in GitHeads : git_head' = h
    /\ pc' = "check"
    /\ stage' = 1
    /\ cancel_flag' = FALSE
    /\ context' = EmptyDict
    /\ locals' = EmptyDict
    /\ artifacts' = <<>>
    /\ progress' = <<>>
    /\ events' = <<>>
    /\ cancel_at' = <<>>
    /\ env_seen' = <<>>
    /\ UNCHANGED <<case_data, backend, progress_callback, cancel_event, vendor_env,
                   call, model, log>>

\* one run of the pipeline, with a thread that may cancel it
Next ==
    \/ CheckCancel
    \/ RunStage
    \/ Notify
    \/ Assemble
    \/ SetCancel

Spec == Init /\ [][Next]_vars

\* repeated runs on the same case data, called without notifier and without
\* cancel Event, while the vendor curve source, the clock and the repository
\* HEAD change
RerunInit == Init /\ ~cancel_event /\ ~progress_callback

RerunNext ==
    \/ CheckCancel
    \/ RunStage
    \/ Notify
    \/ Assemble
    \/ EnvChange
    \/ NextRun

RerunSpec == RerunInit /\ [][RerunNext]_vars

\* ------------------------------------------------------------------------
\* single calls of the solver functions, outside a run of the pipeline
\* ------------------------------------------------------------------------

ModeChoices == {"enforce", "advisory"}

\* hrsg.constraints: absent, not a mapping, empty, or naming the three modes
ConstraintSections ==
    {EmptyDict, [constraints |-> [not_a_mapping |-> TRUE]], [constraints |-> EmptyDict]}
    \cup {[constraints |-> [pinch_mode |-> p, approach_mode |-> a, stack_mode |-> s]] :
             p \in ModeChoices, a \in ModeChoices, s \in ModeChoices}

\* context["case_constraints"]: absent, empty, or holding the flags
CaseConstraintSections ==
    {EmptyDict,
     [case_constraints |-> EmptyDict],
     [case_constraints |-> [allow_relaxed_pinch |-> TRUE]],
     [case_constraints |-> [allow_relaxed_stack |-> TRUE]],
     [case_constraints |-> [allow_relaxed_pinch |-> TRUE, allow_relaxed_stack |-> TRUE]],
     [case_constraints |-> [allow_relaxed_pinch |-> FALSE, allow_relaxed_stack |-> FALSE]]}

LimitChoices == {"both", "pinch_only", "approach_only"}

\* a level that configures both limits, or only one of them
HrsgCallLevel(pressure, limits) ==
    [pressure_bar |-> RInt(pressure), steam_temp_C |-> RInt(595)]
    @@ (IF limits \in {"both", "pinch_only"} THEN [pinch_K |-> RInt(10)] ELSE EmptyDict)
    @@ (IF limits \in {"both", "approach_only"} THEN [approach_K |-> RInt(5)] ELSE EmptyDict)

\* an attemperator that sprays the HP steam down to 98 C, 3 K over the
\* feedwater: under either limit alone
SprayDeep ==
    [target |-> "hp", steam_temp_C |-> RInt(98), m_dot_max_kg_s |-> RInt(1000)]

DeviceSections ==
    {EmptyDict,
     [devices |-> [attemperators |-> <<SprayToPinch>>]],
     [devices |-> [attemperators |-> <<SprayDeep>>]],
     [devices |-> [duct_burner |-> DuctBurnerLowStack]],
     [devices |-> [attemperators |-> <<SprayDeep>>, duct_burner |-> DuctBurnerLowStack]]}

HrsgCallSpecs ==
    {[hp |-> HrsgCallLevel(100, limits), ip |-> HrsgCallLevel(10, limits),
      lp |-> HrsgCallLevel(1, limits),
      stack_temp_min_C |-> RInt(90), feedwater_temp_C |-> RInt(95)]
     @@ devices @@ constraints :
        limits \in LimitChoices, devices \in DeviceSections,
        constraints \in ConstraintSections}

\* a level with a superheated steam temperature, or without one (the steam
\* temperature then defaults to the feedwater temperature)
EnergyLevel(pressure, superheated) ==
    [pressure_bar |-> RInt(pressure)]
    @@ (IF superheated THEN [steam_temp_C |-> RInt(595)] ELSE EmptyDict)

\* devices that change the available heat: none, a bypass of a quarter of
\* the exhaust, a duct burner
EnergyDeviceSections ==
    {EmptyDict,
     [devices |-> [bypass |-> [fraction |-> Rat(1, 4)]]],
     [devices |-> [duct_burner |-> [duty_MW |-> RInt(20)]]]}

\* contexts whose levels need different specific energies, with an exhaust
\* hotter or colder than the stack
HrsgEnergyContexts ==
    {[gt_exhaust |-> [temp_C |-> RInt(temp), flow_kg_s |-> RInt(10)],
      hrsg |-> [hp |-> EnergyLevel(100, sh_hp), ip |-> EnergyLevel(10, sh_ip),
                lp |-> EnergyLevel(1, sh_lp),
                stack_temp_min_C |-> RInt(90), feedwater_temp_C |-> RInt(95)] @@ devices] :
        temp \in {590, 80}, sh_hp \in BOOLEAN, sh_ip \in BOOLEAN, sh_lp \in BOOLEAN,
        devices \in EnergyDeviceSections}

\* attemperator specs for a level that makes 23 kg/s of steam at 595 C: a
\* target under, at or over the steam temperature or none; no spray limit, a
\* limit under the steam flow (half of it, or 0.01 kg/s short of it), at it,
\* over it, or a negative one
SpraySpecs ==
    {[target |-> target] @@ temp @@ limit :
        target \in {"hp", "ip"},
        temp \in {EmptyDict} \cup {[steam_temp_C |-> RInt(t)] : t \in {495, 595, 600}},
        limit \in {EmptyDict} \cup {[m_dot_max_kg_s |-> m] :
                      m \in {Rat(23, 2), Rat(2299, 100), RInt(23), RInt(1000), RInt(-23)}}}

\* attemperator lists: one spec, or a spec for a level that does not exist
\* followed by one spec for each of two levels
SprayLists ==
    {<<spec>> : spec \in SpraySpecs}
    \cup {<<[target |-> "rh", steam_temp_C |-> RInt(495)], hp, ip>> :
             hp \in {spec \in SpraySpecs : spec.target = "hp" /\ Has(spec, "steam_temp_C")
                                           /\ spec.steam_temp_C = RInt(495)},
             ip \in {spec \in SpraySpecs : spec.target = "ip" /\ Has(spec, "m_dot_max_kg_s")
                                           /\ spec.m_dot_max_kg_s = RInt(23)}}

\* contexts with attemperators and no pinch or approach limits
HrsgSprayContexts ==
    {[gt_exhaust |-> [temp_C |-> RInt(590), flow_kg_s |-> RInt(522)],
      hrsg |-> [hp |-> EnergyLevel(100, TRUE), ip |-> EnergyLevel(10, TRUE),
                lp |-> EnergyLevel(1, TRUE),
                stack_temp_min_C |-> RInt(90), feedwater_temp_C |-> RInt(95),
                devices |-> [attemperators |-> specs]]] : specs \in SprayLists}

\* a level whose steam lies 0.5 K over the feedwater, on the boundary
\* steam_T - feedwater_T = pinch_K + approach_K
BoundaryLevel(pinch, approach) ==
    [pressure_bar |-> RInt(10), steam_temp_C |-> Rat(191, 2),
     pinch_K |-> pinch, approach_K |-> approach]

\* the contexts solve_hrsg_block is called with
HrsgContexts ==
    {[gt_exhaust |-> [temp_C |-> RInt(590), flow_kg_s |-> RInt(522)], hrsg |-> spec]
     @@ cc : spec \in HrsgCallSpecs, cc \in CaseConstraintSections}
    \cup {[gt_exhaust |-> [temp_C |-> RInt(590), flow_kg_s |-> RInt(522)],
           hrsg |-> [hp |-> level, ip |-> level, lp |-> level,
                     stack_temp_min_C |-> RInt(90), feedwater_temp_C |-> RInt(95),
                     constraints |-> [pinch_mode |-> modes[1], approach_mode |-> modes[2]]]] :
             level \in {BoundaryLevel(Rat(1, 10), Rat(2, 5)),
                        BoundaryLevel(Rat(2, 5), Rat(1, 10)),
                        BoundaryLevel(Rat(1, 5), Rat(1, 5))},
             modes \in {<<"advisory", "enforce">>, <<"enforce", "advisory">>}}

\* hrsg_block as summarize_plant may receive it: without a converged flag,
\* converged, or not converged
HrsgBlocks ==
    {EmptyDict,
     [converged |-> TRUE, iterations_used |-> 1],
     [converged |-> FALSE, iterations_used |-> 1]}

\* condenser heats that put the closure error of a 1000 MW fuel input on,
\* between and beyond the 0.3 % and 0.5 % marks, on either side of zero
SummaryCondenserHeats == {0, 394, 395, 396, 397, 399, 400, 403, 404, 405, 406}

\* the (blocks, metadata) pairs summarize_plant is called with
SummaryInputs ==
    {<<[gt_block |-> [fuel_heat_input_MW_LHV |-> RInt(fuel), electric_power_MW |-> RInt(400)],
        st_block |-> [electric_power_MW |-> RInt(200)],
        condenser_block |-> [heat_rejected_MW |-> RInt(heat)],
        hrsg_block |-> hrsg],
       [bop |-> [aux_load_MW |-> RInt(5)], meta |-> [input_case |-> "case.json"]]>> :
        fuel \in {0, 1000}, heat \in SummaryCondenserHeats, hrsg \in HrsgBlocks}
    \cup {<<EmptyDict, EmptyDict>>}

\* the contexts solve_condenser_loop is called with: LP flows below, at and
\* above zero, fuel heat inputs under and over the electric power
CondenserContexts ==
    {[steam_turbine |-> [lp_section |-> [flow_kg_s |-> RInt(lp_flow),
                                         inlet_T_C |-> RInt(lp_inlet_temp)],
                         electric_power_MW |-> RInt(st_power)],
      gt_block |-> [electric_power_MW |-> RInt(300),
                    fuel_heat_input_MW_LHV |-> RInt(fuel)],
      condenser |-> [vacuum_kPa_abs |-> RInt(10), cw_inlet_C |-> RInt(20)]] :
        lp_flow \in {-10, 0, 10, 200}, lp_inlet_temp \in {50, 150},
        st_power \in {100, 500}, fuel \in {0, 750}}
    \cup {EmptyDict}

\* the blocks of a plant with the four terms of the heat balance:
\* terms = <<fuel heat input, GT power, ST power, heat rejected>>
SummaryBlocks(terms) ==
    [gt_block |-> [fuel_heat_input_MW_LHV |-> RInt(terms[1]), electric_power_MW |-> RInt(terms[2])],
     st_block |-> [electric_power_MW |-> RInt(terms[3])],
     condenser_block |-> [heat_rejected_MW |-> RInt(terms[4])],
     hrsg_block |-> [converged |-> TRUE, iterations_used |-> 1]]

\* balanced plants, fuel = GT + ST + heat rejected: a plant in operation, a
\* plant with every term at zero, and one with a negative fuel heat input
BalancedPoints == {<<1000, 400, 200, 400>>, <<0, 0, 0, 0>>, <<-100, -100, 0, 0>>}

Increments == {1, 50}

\* the terms with one of them increased
Increased(terms, term, delta) == [terms EXCEPT ![term] = @ + delta]

\* the dictionaries in memory before a call of deep_merge: trees that share
\* keys holding a mapping on both sides, a mapping on one side only, values
\* on both sides, and keys of one side only; an empty dictionary
MergeHeap ==
    <<[a |-> Scalar(1), b |-> Ref(2), c |-> Ref(3)],
      [x |-> Scalar(1), y |-> Scalar(2), z |-> Ref(3)],
      [x |-> Scalar(3)],
      [a |-> Ref(3), b |-> Ref(5), d |-> Scalar(9)],
      [y |-> Scalar(7), z |-> Ref(6)],
      EmptyDict,
      [b |-> Scalar(0), c |-> Ref(5)]>>

\* the inputs solve_gt_block is called with: every blend choice, a gas
\* turbine without fuel LHV and one whose vendor blend names no curve, with
\* and without corrections; and the inputs run_pipeline builds (the ambient
\* section, the gas turbine, and the corrections apply_site_corrections
\* returns for them) for site temperatures at and off the reference
\* temperature
GtInputs ==
    {[gas_turbine |-> gas_turbine] @@ corrections :
        gas_turbine \in {GasTurbine(blend) : blend \in BlendChoices}
                        \cup {CaseWithoutFuelLHV.gas_turbine,
                              [GasTurbine("vendor") EXCEPT
                                  !.performance_blend = [mode |-> "vendor_blend"]]},
        corrections \in {EmptyDict,
                         [corrections |-> [power_multiplier |-> Rat(5, 4),
                                           flow_multiplier |-> Rat(5, 4),
                                           exhaust_temp_delta_C |-> RInt(-50)]]}}
    \cup {[ambient |-> ambient,
           gas_turbine |-> [GasTurbine(blend) EXCEPT !.corr_coeff = reference @@ coeff],
           corrections |-> apply_site_corrections(be, ambient, reference @@ coeff)] :
            ambient \in {EmptyDict, [Ta_C |-> RInt(15)], [Ta_C |-> RInt(25)]},
            reference \in {EmptyDict, [reference_temp_C |-> RInt(25)]},
            coeff \in {EmptyDict,
                       [dPower_pct_per_K |-> RInt(-1), dFlow_pct_per_K |-> RInt(-1),
                        dExhT_K_per_K |-> RInt(2)],
                       [dPower_pct_per_K |-> Rat(1, 2), dFlow_pct_per_K |-> Rat(3, 10),
                        dExhT_K_per_K |-> Rat(-7, 10)]},
            blend \in BlendChoices, be \in Backends}

\* the contexts solve_steam_turbine is called with: no HRSG result, or the
\* HRSG result of a plain and of an attemperated HRSG; efficiencies absent,
\* inside and outside [0, 1]
StContexts ==
    {hrsg @@ steam_turbine @@ [condenser |-> [vacuum_kPa_abs |-> RInt(10)]] :
        hrsg \in {EmptyDict}
                 \cup {[hrsg |-> solve_hrsg_block(
                                     [gt_exhaust |-> [temp_C |-> RInt(590),
                                                      flow_kg_s |-> RInt(522)],
                                      hrsg |-> HrsgSpec(scenario)])[1]] :
                          scenario \in {"plain", "pinch"}},
        steam_turbine \in {EmptyDict,
                           [steam_turbine |-> [isentropic_eff_hp |-> Rat(9, 10),
                                               mech_elec_eff |-> Rat(95, 100)]],
                           [steam_turbine |-> [isentropic_eff_hp |-> Rat(3, 2),
                                               isentropic_eff_lp |-> Rat(-1, 2)]],
                           [steam_turbine |-> [mech_elec_eff |-> Rat(6, 5)]],
                           [steam_turbine |-> [mech_elec_eff |-> Rat(-1, 10)]]}}

\* a context for the comparison of two calls: the HP pressure and steam
\* temperature, and the spray limit of an attemperator to 495 C (0: none)
PairContext(hp_pressure, hp_temp, limit) ==
    [gt_exhaust |-> [temp_C |-> RInt(590), flow_kg_s |-> RInt(522)],
     hrsg |-> [hp |-> [pressure_bar |-> RInt(hp_pressure), steam_temp_C |-> RInt(hp_temp)],
               ip |-> EnergyLevel(10, TRUE), lp |-> EnergyLevel(1, TRUE),
               stack_temp_min_C |-> RInt(90), feedwater_temp_C |-> RInt(95)]
              @@ (IF limit = RZero THEN EmptyDict
                  ELSE [devices |-> [attemperators |->
                            <<[target |-> "hp", steam_temp_C |-> RInt(495),
                               m_dot_max_kg_s |-> limit]>>]])]

\* contexts that differ in the HP pressure only, with and without an
\* attemperator, and contexts that differ in an HP steam temperature under
\* the feedwater temperature
PairContexts ==
    {PairContext(hp_pressure, 595, limit) :
        hp_pressure \in {100, 120}, limit \in {RZero, Rat(23, 2)}}
    \cup {PairContext(100, hp_temp, RZero) : hp_temp \in {50, 60}}

\* no run of the pipeline is in progress
FnInit ==
    /\ case_data = EmptyDict
    /\ backend = "coolprop"
    /\ progress_callback = FALSE
    /\ cancel_event = FALSE
    /\ cancel_flag = FALSE
    /\ pc = "idle"
    /\ stage = 1
    /\ context = EmptyDict
    /\ locals = EmptyDict
    /\ artifacts = <<>>
    /\ progress = <<>>
    /\ events = <<>>
    /\ cancel_at = <<>>
    /\ vendor_env = [path_set |-> FALSE, readable |-> FALSE, data |-> EmptyDict]
    /\ env_seen = <<>>
    /\ clock = 0
    /\ git_head = "abc123"
    /\ run = 1
    /\ prev = <<>>
    /\ call = NoCall
    /\ model = NoModel
    /\ log = <<>>

\* solve_hrsg_block(context)
CallHrsg ==
    /\ call = NoCall
    /\ \E ctx \in HrsgContexts \cup HrsgEnergyContexts \cup HrsgSprayContexts :
          call' = [fn |-> "solve_hrsg_block", input |-> ctx, output |-> solve_hrsg_block(ctx)]
    /\ UNCHANGED <<pipeline_vars, model, log>>

\* summarize_plant(blocks, metadata)
CallSummary ==
    /\ call = NoCall
    /\ \E args \in SummaryInputs :
          call' = [fn |-> "summarize_plant", input |-> args,
                   output |-> summarize_plant(args[1], args[2])]
    /\ UNCHANGED <<pipeline_vars, model, log>>

\* solve_condenser_loop(context)
CallCondenser ==
    /\ call = NoCall
    /\ \E ctx \in CondenserContexts :
          call' = [fn |-> "solve_condenser_loop", input |-> ctx,
                   output |-> solve_condenser_loop(ctx)]
    /\ UNCHANGED <<pipeline_vars, model, log>>

\* summarize_plant on a balanced plant, and again with one term increased
CallSummaryTwice ==
    /\ call = NoCall
    /\ \E terms \in BalancedPoints, term \in 1..4, delta \in Increments :
          call' = [fn |-> "summarize_plant_twice",
                   input |-> [terms |-> terms, term |-> term, delta |-> delta],
                   output |-> <<summarize_plant(SummaryBlocks(terms), EmptyDict),
                                summarize_plant(SummaryBlocks(Increased(terms, term, delta)),
                                                EmptyDict)>>]
    /\ UNCHANGED <<pipeline_vars, model, log>>

\* deep_merge(base, override) on two dictionaries of the heap
CallDeepMerge ==
    /\ call = NoCall
    /\ \E base \in DOMAIN MergeHeap, override \in DOMAIN MergeHeap :
          call' = [fn |-> "deep_merge",
                   input |-> [heap |-> MergeHeap, base |-> base, override |-> override],
                   output |-> deep_merge(MergeHeap, base, override)]
    /\ UNCHANGED <<pipeline_vars, model, log>>

\* merge_case_with_defaults(case_data, defaults)
CallMergeCase ==
    /\ call = NoCall
    /\ \E user_case \in DOMAIN MergeHeap, defaults \in DOMAIN MergeHeap :
          call' = [fn |-> "merge_case_with_defaults",
                   input |-> [heap |-> MergeHeap, base |-> defaults, override |-> user_case],
                   output |-> merge_case_with_defaults(MergeHeap, user_case, defaults)]
    /\ UNCHANGED <<pipeline_vars, model, log>>

\* solve_gt_block(inputs)
CallGt ==
    /\ call = NoCall
    /\ \E inputs \in GtInputs, env \in VendorEnvs :
          call' = [fn |-> "solve_gt_block", input |-> <<inputs, env>>,
                   output |-> solve_gt_block(inputs, env)]
    /\ UNCHANGED <<pipeline_vars, model, log>>

\* solve_steam_turbine(context)
CallSt ==
    /\ call = NoCall
    /\ \E ctx \in StContexts :
          call' = [fn |-> "solve_steam_turbine", input |-> ctx,
                   output |-> solve_steam_turbine(ctx)]
    /\ UNCHANGED <<pipeline_vars, model, log>>

\* solve_hrsg_block on two contexts
CallHrsgTwice ==
    /\ call = NoCall
    /\ \E ctx1 \in PairContexts, ctx2 \in PairContexts :
          call' = [fn |-> "solve_hrsg_block_twice", input |-> <<ctx1, ctx2>>,
                   output |-> <<solve_hrsg_block(ctx1), solve_hrsg_block(ctx2)>>]
    /\ UNCHANGED <<pipeline_vars, model, log>>

FnNext ==
    \/ CallHrsg
    \/ CallSummary
    \/ CallCondenser
    \/ CallSummaryTwice
    \/ CallDeepMerge
    \/ CallMergeCase
    \/ CallGt
    \/ CallSt
    \/ CallHrsgTwice

FnSpec == FnInit /\ [][FnNext]_vars

\* ------------------------------------------------------------------------
\* Properties of a run of the pipeline
\* ------------------------------------------------------------------------

\* the i-th entry of the history of a run whose stages execute in order
CanonicalEvent(i) == <<IF i % 2 = 1 THEN "call" ELSE "return", (i + 1) \div 2>>

\* the names stage k binds
StageOutputs(k) ==
    CASE k = 1 -> {"ambient_trace"}
      [] k = 2 -> {"gt_result", "gt_trace"}
      [] k = 3 -> {"hrsg_result", "hrsg_trace"}
      [] k = 4 -> {"st_result", "st_trace"}
      [] k = 5 -> {"condenser_result", "condenser_trace"}
      [] k = 6 -> {"summary", "mass_balance", "summary_trace"}

\* the stage being executed was handed the results of its upstream stages
UpstreamThreaded ==
    CASE stage = 1 -> TRUE
      [] stage = 2 -> context.corrections = locals.ambient_trace
      [] stage = 3 -> context.gt_exhaust = locals.gt_result.exhaust
      [] stage = 4 -> context.hrsg = locals.hrsg_result
      [] stage = 5 -> /\ context.steam_turbine = locals.st_result
                      /\ context.gt_block = locals.gt_result
      [] stage = 6 -> context.blocks = [gt_block |-> locals.gt_result,
                                        hrsg_block |-> locals.hrsg_result,
                                        st_block |-> locals.st_result,
                                        condenser_block |-> locals.condenser_result]

\* C1: in every run the stages are called in the order ambient, GT, HRSG,
\* ST, condenser, summary, each called only after the one before it has
\* returned and none called twice (the history of calls and returns is a
\* prefix of call 1, return 1, ..., call 6, return 6); the results held are
\* exactly those of the stages that have returned in this run; and the
\* stage being executed was handed the results its upstream stages returned.
C1_StageOrder ==
    pc # "idle" =>
        /\ Len(events) <= 2 * NumStages
        /\ \A i \in 1..Len(events) : events[i] = CanonicalEvent(i)
        /\ DOMAIN locals = UNION {StageOutputs(k) : k \in 1..(Len(events) \div 2)}
        /\ pc = "stage" => Len(events) = 2 * stage - 1 /\ UpstreamThreaded
        /\ pc = "done" => Len(events) = 2 * NumStages

\* a run that has executed all six stages and returned
C1_Witness == pc = "done" /\ Len(events) = 2 * NumStages /\ artifacts # <<>>

\* the keys of the result tree and of the trace tree of a completed run
ResultKeys ==
    {"summary", "gt_block", "hrsg_block", "st_block", "condenser_block",
     "mass_energy_balance", "meta"}

TraceKeys == {"ambient", "gt_block", "hrsg_block", "st_block", "condenser_block", "summary"}

\* what a run has handed back is complete or nothing
NoPartialResult ==
    /\ artifacts # <<>> =>
          /\ pc = "done"
          /\ Len(events) = 2 * NumStages
          /\ DOMAIN artifacts[1].result = ResultKeys
          /\ DOMAIN artifacts[1].trace = TraceKeys
          /\ artifacts[1].result.gt_block = locals.gt_result
          /\ artifacts[1].result.hrsg_block = locals.hrsg_result
          /\ artifacts[1].result.st_block = locals.st_result
          /\ artifacts[1].result.condenser_block = locals.condenser_result
          /\ artifacts[1].result.summary = locals.summary
          /\ artifacts[1].result.mass_energy_balance = locals.mass_balance
    /\ pc = "done" => artifacts # <<>>
    /\ pc = "cancelled" => artifacts = <<>>

SetDuringStage(k) == cancel_at = <<"stage", k>>

\* C3 as stated: when the cancel signal is set while stage k is executing,
\* for any k of the six, no later stage starts and the run does not return
\* normally but raises PipelineCancelled at the next boundary.
C3_AsStated ==
    \A k \in 1..NumStages :
        SetDuringStage(k) =>
            /\ Len(events) <= 2 * k
            /\ pc \notin {"assemble", "done"}

\* C3, amended: cancellation is polled only at the six boundaries, one before
\* each stage, and never acted on within a stage; when the signal is set
\* while stage k is executing, stage k still completes and no later stage
\* starts; for k = 1..5 the run does not return normally and, when it raises
\* PipelineCancelled, does so at the boundary before stage k + 1, with stage
\* k returned; for k = 6 no boundary is left and the run is not cancelled.
C3_BoundaryPolling ==
    /\ [](\A k \in 1..NumStages :
             SetDuringStage(k) =>
                 /\ Len(events) <= 2 * k
                 /\ k < NumStages =>
                        /\ pc \notin {"assemble", "done"}
                        /\ pc = "cancelled" =>
                               /\ stage = k + 1
                               /\ Len(events) = 2 * k
                               /\ StageOutputs(k) \subseteq DOMAIN locals
                 /\ k = NumStages => pc # "cancelled")
    /\ [][/\ pc' = "cancelled" /\ pc # "cancelled" =>
                pc = "check" /\ cancel_event /\ cancel_flag
          /\ pc = "stage" => pc' \in {"stage", "notify", "failed"}
          /\ (pc = "stage" /\ pc' = "notify") =>
                events' = Append(events, <<"return", stage>>)]_vars

\* the signal was set while the HRSG stage was executing; the stage
\* returned and the run was cancelled at the boundary before the ST stage
C3_Witness ==
    /\ SetDuringStage(3)
    /\ pc = "cancelled"
    /\ stage = 4
    /\ events[Len(events)] = <<"return", 3>>

\* C4: with a progress notifier supplied, every fraction it receives lies in
\* [0, 1]; the fractions of a run never decrease; the i-th notification is
\* the one of stage i and is issued only after stage i has returned; and a
\* run that has raised PipelineCancelled at the boundary before stage k has
\* issued the notifications of stages 1..k-1 and issues none afterwards.
\* Without a notifier nothing is notified.
C4_Progress ==
    /\ [](pc # "idle" =>
             /\ ~progress_callback => progress = <<>>
             /\ \A i \in 1..Len(progress) :
                   /\ RLe(RZero, progress[i][2]) /\ RLe(progress[i][2], ROne)
                   /\ progress[i][1] = StageLabel(i)
                   /\ 2 * i <= Len(events) /\ events[2 * i] = <<"return", i>>
             /\ \A i, j \in 1..Len(progress) :
                   i < j => RLe(progress[i][2], progress[j][2])
             /\ (progress_callback /\ pc = "cancelled") => Len(progress) = stage - 1
             /\ (progress_callback /\ pc = "done") => Len(progress) = NumStages)
    /\ [][pc = "cancelled" => progress' = progress]_vars

\* a notifier that has received the first three notifications of a run that
\* was then cancelled
C4_Witness ==
    /\ progress_callback
    /\ pc = "cancelled"
    /\ Len(progress) = 3
    /\ progress[3] = <<"HRSG", Rat(1, 2)>>

\* ------------------------------------------------------------------------
\* Properties of repeated runs
\* ------------------------------------------------------------------------

\* the result and trace trees without timestamp_utc and solver_commit
Comparable(a) ==
    [result |-> [k \in DOMAIN a.result |->
                    IF k = "meta"
                    THEN [input_case |-> a.result.meta.input_case,
                          warnings |-> a.result.meta.warnings]
                    ELSE a.result[k]],
     trace |-> [k \in DOMAIN a.trace |->
                   IF k = "summary"
                   THEN [balance |-> a.trace.summary.balance,
                         warnings |-> a.trace.summary.warnings,
                         meta |-> [input_case |-> a.trace.summary.meta.input_case]]
                   ELSE a.trace[k]]]

\* a run has completed after an earlier completed run on the same case data
TwoRuns == pc = "done" /\ prev # <<>>

\* what the Property Service resolved the curve of the case to, from the
\* source env
ResolvedCurve(env) ==
    LET blend_spec == Get(Get(case_data, "gas_turbine", EmptyDict), "performance_blend", EmptyDict)
    IN  IF Get(blend_spec, "mode", "linear") = "vendor_blend" /\ Has(blend_spec, "vendor_curve_id")
        THEN load_vendor_curve(env, blend_spec.vendor_curve_id)
        ELSE EmptyDict

\* C5 as stated: two runs on the same unchanged case data produce identical
\* result and trace trees once timestamp_utc and solver_commit are left out.
C5_AsStated == TwoRuns => Comparable(artifacts[1]) = Comparable(prev[1])

\* C5, amended: two runs on the same unchanged case data in which the vendor
\* curve of the case resolves alike (same HBD_VENDOR_CURVE_PATH file content,
\* or unresolved in both) produce identical result and trace trees once
\* timestamp_utc and solver_commit are left out; the two fields left out are
\* the clock and the repository HEAD read by the run.
C5_Determinism ==
    TwoRuns =>
        /\ artifacts[1].result.meta.timestamp_utc = clock
        /\ artifacts[1].result.meta.solver_commit = git_head
        /\ ResolvedCurve(env_seen[1]) = ResolvedCurve(prev[2]) =>
               Comparable(artifacts[1]) = Comparable(prev[1])

\* two completed runs of a vendor-blend case that read the same readable
\* curve file at different times and repository HEADs
C5_Witness ==
    /\ TwoRuns
    /\ ResolvedCurve(env_seen[1]) # EmptyDict
    /\ ResolvedCurve(env_seen[1]) = ResolvedCurve(prev[2])
    /\ artifacts[1].result.meta.timestamp_utc # prev[1].result.meta.timestamp_utc
    /\ artifacts[1].result.meta.solver_commit # prev[1].result.meta.solver_commit
    /\ Comparable(artifacts[1]) = Comparable(prev[1])

\* ------------------------------------------------------------------------
\* Properties of the HRSG stage within a run
\* ------------------------------------------------------------------------

\* C6: in a run whose case sets case_constraints.allow_relaxed_pinch
\* (respectively allow_relaxed_stack), the HRSG block is not left unconverged
\* by a pinch or approach violation (respectively a stack violation): when
\* the HRSG stage returns converged = false, some violation it reports is
\* one the case did not relax.
C6_RelaxationHonoured ==
    Has(locals, "hrsg_result") =>
        LET case_constraints == Get(case_data, "case_constraints", EmptyDict)
            codes == Codes(locals.hrsg_result.warnings)
        IN  ~locals.hrsg_result.converged =>
                \/ /\ codes \cap {"HRSG_PINCH_VIOLATION", "HRSG_APPROACH_VIOLATION"} # {}
                   /\ ~Get(case_constraints, "allow_relaxed_pinch", FALSE)
                \/ /\ "HRSG_STACK_LOW" \in codes
                   /\ ~Get(case_constraints, "allow_relaxed_stack", FALSE)

\* ------------------------------------------------------------------------
\* Properties of single calls of the solver functions
\* ------------------------------------------------------------------------

HrsgCalled == call.fn = "solve_hrsg_block"

\* the mode configured for a constraint, "enforce" when none is configured
ConfiguredMode(hrsg_spec, key) ==
    IF /\ "constraints" \in DOMAIN hrsg_spec
       /\ "not_a_mapping" \notin DOMAIN hrsg_spec.constraints
       /\ key \in DOMAIN hrsg_spec.constraints
    THEN hrsg_spec.constraints[key]
    ELSE "enforce"

\* the flag of the case constraints handed to the call is set
FlagSet(ctx, flag) ==
    /\ "case_constraints" \in DOMAIN ctx
    /\ flag \in DOMAIN ctx.case_constraints
    /\ ctx.case_constraints[flag]

\* the configured limit of a level, 0 when none is configured
LevelLimit(hrsg_spec, level, key) ==
    IF level \in DOMAIN hrsg_spec /\ key \in DOMAIN hrsg_spec[level]
    THEN hrsg_spec[level][key]
    ELSE RZero

\* steam temperature of the returned level over the feedwater temperature
SteamOverFeedwater(ctx, result, level) ==
    RSub(result[level].steam_T_C, ctx.hrsg.feedwater_temp_C)

\* steam_T - feedwater_T - approach_K, floored at 0, lies under pinch_K (the
\* subtraction as the check computes it)
PinchViolated(ctx, result, level) ==
    RLt(RMax(FloatSub(SteamOverFeedwater(ctx, result, level),
                  LevelLimit(ctx.hrsg, level, "approach_K")), RZero),
        LevelLimit(ctx.hrsg, level, "pinch_K"))

\* steam_T - feedwater_T - pinch_K, floored at 0, lies under approach_K
ApproachViolated(ctx, result, level) ==
    RLt(RMax(FloatSub(SteamOverFeedwater(ctx, result, level),
                  LevelLimit(ctx.hrsg, level, "pinch_K")), RZero),
        LevelLimit(ctx.hrsg, level, "approach_K"))

\* the returned stack temperature lies under the configured minimum
StackViolated(ctx, result) == RLt(result.stack_temp_C, ctx.hrsg.stack_temp_min_C)

Levels == {"hp", "ip", "lp"}

\* some constraint is violated while its mode is enforce and its
\* relaxed-allowance flag (allow_relaxed_pinch for pinch and approach,
\* allow_relaxed_stack for the stack) is not set
EnforcedViolation(ctx, result) ==
    \/ /\ \E level \in Levels : PinchViolated(ctx, result, level)
       /\ ConfiguredMode(ctx.hrsg, "pinch_mode") = "enforce"
       /\ ~FlagSet(ctx, "allow_relaxed_pinch")
    \/ /\ \E level \in Levels : ApproachViolated(ctx, result, level)
       /\ ConfiguredMode(ctx.hrsg, "approach_mode") = "enforce"
       /\ ~FlagSet(ctx, "allow_relaxed_pinch")
    \/ /\ StackViolated(ctx, result)
       /\ ConfiguredMode(ctx.hrsg, "stack_mode") = "enforce"
       /\ ~FlagSet(ctx, "allow_relaxed_stack")

\* C7: solve_hrsg_block returns converged = false exactly when some
\* constraint (pinch or approach at a level, or stack) is violated while its
\* mode is enforce, the default when none is configured, and its
\* relaxed-allowance flag is not set, and converged = true otherwise; with
\* pinch_mode enforce, the HP pinch violated and no flag set, converged is
\* false and the warnings hold the code HRSG_PINCH_VIOLATION.
C7_HrsgConverged ==
    HrsgCalled =>
        LET ctx == call.input
            result == call.output[1]
        IN  /\ result.converged = ~EnforcedViolation(ctx, result)
            /\ (/\ ConfiguredMode(ctx.hrsg, "pinch_mode") = "enforce"
                /\ PinchViolated(ctx, result, "hp")
                /\ ~FlagSet(ctx, "allow_relaxed_pinch")) =>
                   /\ result.converged = FALSE
                   /\ "HRSG_PINCH_VIOLATION" \in Codes(result.warnings)

\* the call of the scenario: pinch_mode enforce, the HP steam 13 K over the
\* feedwater with approach 5 K and pinch 10 K (actual pinch 8 K), no
\* case constraints; not converged, with the pinch warning
C7_Witness ==
    /\ HrsgCalled
    /\ "case_constraints" \notin DOMAIN call.input
    /\ "constraints" \in DOMAIN call.input.hrsg
    /\ ConfiguredMode(call.input.hrsg, "pinch_mode") = "enforce"
    /\ ConfiguredMode(call.input.hrsg, "approach_mode") = "advisory"
    /\ SteamOverFeedwater(call.input, call.output[1], "hp") = RInt(13)
    /\ LevelLimit(call.input.hrsg, "hp", "approach_K") = RInt(5)
    /\ call.output[1].converged = FALSE
    /\ "HRSG_PINCH_VIOLATION" \in Codes(call.output[1].warnings)

SummaryCalled == call.fn = "summarize_plant"

\* the HRSG block handed to summarize_plant carries converged = false
HrsgNotConverged(blocks) ==
    /\ "hrsg_block" \in DOMAIN blocks
    /\ "converged" \in DOMAIN blocks.hrsg_block
    /\ ~blocks.hrsg_block.converged

\* C8: mass_energy_balance.converged is true exactly when closure_error_pct
\* is at most 0.3 and the HRSG block's converged flag is true, an absent
\* flag counting as true.
C8_PlantConverged ==
    SummaryCalled =>
        LET mass_balance == call.output[2]
        IN  mass_balance.converged =
                (/\ RLe(mass_balance.closure_error_pct, Rat(3, 10))
                 /\ ~HrsgNotConverged(call.input[1]))

\* a call whose closure error is exactly 0.3 % and whose HRSG block carries
\* no converged flag: the plant counts as converged
C8_Witness ==
    /\ SummaryCalled
    /\ call.output[2].closure_error_pct = Rat(3, 10)
    /\ "hrsg_block" \in DOMAIN call.input[1]
    /\ "converged" \notin DOMAIN call.input[1].hrsg_block
    /\ call.output[2].converged = TRUE

\* the codes of a list of warnings, in order
CodeSeq(warnings) == [i \in 1..Len(warnings) |-> warnings[i].code]

\* C9: summarize_plant emits CLOSURE_NEAR_LIMIT exactly when
\* 0.3 < closure_error_pct <= 0.5, CLOSURE_GT_0P5 exactly when
\* closure_error_pct > 0.5, neither at or under 0.3 and never both; it
\* appends HRSG_PINCH_VIOLATION exactly when the HRSG block did not
\* converge; and the closure warning, if any, comes before the HRSG warning.
C9_SummaryWarnings ==
    SummaryCalled =>
        LET c == call.output[2].closure_error_pct
            closure_codes ==
                IF RLt(Rat(5, 10), c) THEN <<"CLOSURE_GT_0P5">>
                ELSE IF RLt(Rat(3, 10), c) THEN <<"CLOSURE_NEAR_LIMIT">>
                ELSE <<>>
            hrsg_codes ==
                IF HrsgNotConverged(call.input[1]) THEN <<"HRSG_PINCH_VIOLATION">> ELSE <<>>
        IN  CodeSeq(call.output[3].warnings) = closure_codes \o hrsg_codes

\* a call with a closure error of 0.5 % and an unconverged HRSG block: the
\* near-limit warning, then the HRSG warning
C9_Witness ==
    /\ SummaryCalled
    /\ call.output[2].closure_error_pct = Rat(5, 10)
    /\ HrsgNotConverged(call.input[1])
    /\ CodeSeq(call.output[3].warnings) = <<"CLOSURE_NEAR_LIMIT", "HRSG_PINCH_VIOLATION">>

CondenserCalled == call.fn = "solve_condenser_loop"

\* the bottom-up estimate lp_flow x (latent + cp_water x sensible drop) / 1000
\* of the call, in MW
BottomUpEstimate ==
    LET trace == call.output[2]
    IN  RDiv(RMul(trace.lp_flow_kg_s,
                  RAdd(RInt(2250), RMul(Rat(4186, 1000), trace.sensible_drop_C))),
             RInt(1000))

\* the top-down residual fuel_heat_input - (GT_power + ST_power) of the call
TopDownResidual ==
    LET trace == call.output[2]
    IN  RSub(trace.fuel_heat_input_MW, trace.electric_power_MW)

\* C10 as stated: for every input heat_rejected_MW is at least the bottom-up
\* estimate and at least the top-down residual, and equals the larger of
\* the two.
C10_AsStated ==
    CondenserCalled =>
        LET heat == call.output[1].heat_rejected_MW
        IN  /\ RLe(BottomUpEstimate, heat)
            /\ RLe(TopDownResidual, heat)
            /\ heat = RMax(BottomUpEstimate, TopDownResidual)

\* C10, amended: for every input heat_rejected_MW is at least the bottom-up
\* estimate and at least the top-down residual, and equals the larger of the
\* bottom-up estimate and the residual floored at zero: the larger of the
\* two estimates when the LP flow is not negative, and 0 when both estimates
\* are negative.
C10_HeatRejected ==
    CondenserCalled =>
        LET heat == call.output[1].heat_rejected_MW
            larger == RMax(BottomUpEstimate, TopDownResidual)
        IN  /\ RLe(BottomUpEstimate, heat)
            /\ RLe(TopDownResidual, heat)
            /\ heat = RMax(larger, RZero)
            /\ RLe(RZero, call.output[1].lp_flow_kg_s) => heat = larger

\* a call with a negative LP flow and less fuel heat than electric power:
\* both estimates are negative and the heat rejected is 0
C10_Witness ==
    /\ CondenserCalled
    /\ RLt(BottomUpEstimate, RZero)
    /\ RLt(TopDownResidual, RZero)
    /\ call.output[1].heat_rejected_MW = RZero

SummaryCalledTwice == call.fn = "summarize_plant_twice"

\* closure_error_pct of the balanced call and of the call with a term increased
BalancedClosure == call.output[1][2].closure_error_pct

IncreasedClosure == call.output[2][2].closure_error_pct

\* C11 as stated: closure_error_pct is 0 on a balanced input, and increasing
\* any single one of the four terms from a balanced input yields a strictly
\* larger closure_error_pct.
C11_AsStated ==
    SummaryCalledTwice =>
        /\ BalancedClosure = RZero
        /\ RLt(BalancedClosure, IncreasedClosure)

\* C11, amended: closure_error_pct is 0 on a balanced input; from a balanced
\* input with a positive fuel heat input, increasing any single term yields
\* a strictly larger closure_error_pct; from a balanced input with a fuel
\* heat input of zero, increasing the fuel heat input yields a strictly
\* larger closure_error_pct, while increasing any other term leaves it at 0,
\* the value reported whenever the fuel heat input is zero.
C11_ClosureError ==
    SummaryCalledTwice =>
        /\ BalancedClosure = RZero
        /\ call.input.terms[1] > 0 => RLt(BalancedClosure, IncreasedClosure)
        /\ (call.input.terms[1] = 0 /\ call.input.term = 1) =>
               RLt(BalancedClosure, IncreasedClosure)
        /\ (call.input.terms[1] = 0 /\ call.input.term # 1) => IncreasedClosure = RZero

\* the GT power of the balanced 1000 MW plant increased by 1 MW: the closure
\* error goes from 0 to 0.1 %
C11_Witness ==
    /\ SummaryCalledTwice
    /\ call.input = [terms |-> <<1000, 400, 200, 400>>, term |-> 2, delta |-> 1]
    /\ BalancedClosure = RZero
    /\ IncreasedClosure = Rat(1, 10)

\* level_calculations entry i of the HRSG trace
CalcStep(i) == call.output[2].level_calculations[i]

\* the weight of level i: 1 / specific energy
LevelWeight(i) == RDiv(ROne, CalcStep(i).specific_energy_kJ_per_kg)

\* available heat x weight / sum of weights
HeatShare(i) ==
    RMul(call.output[2].available_heat_kJ_per_s,
         RDiv(LevelWeight(i), RAdd(RAdd(LevelWeight(1), LevelWeight(2)), LevelWeight(3))))

\* steam_flow_kg_s x specific_energy_kJ_per_kg of level i
LevelEnergy(i) ==
    RMul(call.output[1][LEVEL_ORDER[i]].steam_flow_kg_s, CalcStep(i).specific_energy_kJ_per_kg)

\* C12: the sum over hp, ip, lp of steam_flow_kg_s x specific_energy_kJ_per_kg
\* equals available_heat_kJ_per_s, and each level's flow equals its heat
\* share (available heat x weight / sum of weights, weight = 1 / specific
\* energy) divided by its specific energy.
C12_EnergyConservation ==
    HrsgCalled =>
        /\ RAdd(RAdd(LevelEnergy(1), LevelEnergy(2)), LevelEnergy(3))
               = call.output[2].available_heat_kJ_per_s
        /\ \A i \in 1..3 :
               call.output[1][LEVEL_ORDER[i]].steam_flow_kg_s
                   = RDiv(HeatShare(i), CalcStep(i).specific_energy_kJ_per_kg)

\* a superheated HP level over saturated IP and LP levels: the HP level needs
\* more energy per kg and receives the smaller flow of a positive heat
C12_Witness ==
    /\ HrsgCalled
    /\ RLt(CalcStep(2).specific_energy_kJ_per_kg, CalcStep(1).specific_energy_kJ_per_kg)
    /\ RLt(RZero, call.output[1].hp.steam_flow_kg_s)
    /\ RLt(call.output[1].hp.steam_flow_kg_s, call.output[1].ip.steam_flow_kg_s)
    /\ call.output[2].available_heat_kJ_per_s = RInt(5750)

MergeCalled == call.fn \in {"deep_merge", "merge_case_with_defaults"}

\* the tree under a dictionary of the heap, and the tree or value of an item
RECURSIVE Tree(_, _)
Tree(heap, address) ==
    [k \in DOMAIN heap[address] |->
        IF IsMapping(heap[address][k]) THEN Tree(heap, heap[address][k].ref)
        ELSE heap[address][k]]

ItemTree(heap, item) == IF IsMapping(item) THEN Tree(heap, item.ref) ELSE item

\* the tree deep_merge returns for two dictionaries of the heap
MergedTree(heap, base, override) ==
    Bind(deep_merge(heap, base, override), LAMBDA out : Tree(out.heap, out.ref))

\* the key holds a mapping in both dictionaries
BothMappings(base, override, k) ==
    /\ k \in DOMAIN base /\ k \in DOMAIN override
    /\ IsMapping(base[k]) /\ IsMapping(override[k])

\* the three cases of the claim for the returned dictionary merged, given
\* the dictionaries base and override as they were before the call
MergeCases(heap, base, override, merged) ==
    /\ DOMAIN merged = DOMAIN base \cup DOMAIN override
    /\ \A k \in DOMAIN merged :
          /\ BothMappings(base, override, k) =>
                 merged[k] = MergedTree(heap, base[k].ref, override[k].ref)
          /\ (k \in DOMAIN override /\ ~BothMappings(base, override, k)) =>
                 merged[k] = ItemTree(heap, override[k])
          /\ k \notin DOMAIN override => merged[k] = ItemTree(heap, base[k])

\* C13: deep_merge(base, override) returns a tree in which a key present in
\* both with mapping values on both sides holds the recursive merge of the
\* two, any other key present in override holds override's value wholesale,
\* and a key present only in base holds base's value;
\* merge_case_with_defaults applies this with the defaults as base and the
\* user case as override.
C13_DeepMerge ==
    MergeCalled =>
        MergeCases(call.input.heap, call.input.heap[call.input.base],
                   call.input.heap[call.input.override],
                   Tree(call.output.heap, call.output.ref))

\* merge_case_with_defaults of the defaults {a: 1, b: {x, y, z}, c: {x}}
\* and the case {a: {x}, b: {y, z: {}}, d: 9}: b is merged key by key down to
\* b.z, a is replaced by the mapping, c is kept and d is added
C13_Witness ==
    /\ call.fn = "merge_case_with_defaults"
    /\ call.input.base = 1 /\ call.input.override = 4
    /\ Tree(call.output.heap, call.output.ref)
         = [a |-> [x |-> Scalar(3)],
            b |-> [x |-> Scalar(1), y |-> Scalar(7), z |-> [x |-> Scalar(3)]],
            c |-> [x |-> Scalar(3)],
            d |-> Scalar(9)]

\* C14: deep_merge never mutates either input: after the call every
\* dictionary that existed before it, base and override and all their
\* nested mappings included, holds exactly the items it held before.
C14_InputsUnchanged ==
    MergeCalled =>
        /\ Len(call.output.heap) >= Len(call.input.heap)
        /\ \A address \in DOMAIN call.input.heap :
               call.output.heap[address] = call.input.heap[address]

\* a call whose result differs from base at the top and inside a nested
\* mapping, returned in a dictionary that did not exist before the call
C14_Witness ==
    /\ call.fn = "deep_merge"
    /\ call.input.base = 1 /\ call.input.override = 4
    /\ call.output.ref \notin DOMAIN call.input.heap
    /\ call.output.heap[call.output.ref].b \notin {Ref(2), Ref(5)}
    /\ Tree(call.output.heap, call.output.ref) # Tree(call.input.heap, 1)

\* the names under which run_pipeline holds the objects that make up the trace
TraceLocals ==
    {"ambient_trace", "gt_trace", "hrsg_trace", "st_trace", "condenser_trace", "summary_trace"}

\* the frame of run_pipeline with the objects named in hidden emptied
Scrubbed(loc, hidden) == [name \in DOMAIN loc |-> IF name \in hidden THEN EmptyDict ELSE loc[name]]

\* the arguments of the stage about to run are the same whatever the
\* objects named in hidden hold
IndependentOf(hidden) ==
    PipelineContext(stage, case_data, locals, clock, git_head)
        = PipelineContext(stage, case_data, Scrubbed(locals, hidden), clock, git_head)

\* C15 as stated: no stage takes as input any trace object produced by an
\* earlier stage.
C15_AsStated == pc = "stage" => IndependentOf(TraceLocals)

\* C15, amended: the GT stage takes as its corrections the object the
\* ambient stage returned, the same object that becomes trace["ambient"];
\* apart from that no stage takes as input any trace object produced by an
\* earlier stage, and the block results of a run are the result objects the
\* stages returned.
C15_TraceIsolation ==
    /\ pc = "stage" =>
          /\ IndependentOf(TraceLocals \ {"ambient_trace"})
          /\ stage # 2 => IndependentOf(TraceLocals)
          /\ stage = 2 => context.corrections = locals.ambient_trace
    /\ pc = "done" =>
          /\ artifacts[1].trace.ambient = locals.ambient_trace
          /\ artifacts[1].trace.gt_block = locals.gt_trace
          /\ artifacts[1].result.gt_block = locals.gt_result
          /\ artifacts[1].result.hrsg_block = locals.hrsg_result
          /\ artifacts[1].result.st_block = locals.st_result
          /\ artifacts[1].result.condenser_block = locals.condenser_result
          /\ artifacts[1].result.summary = locals.summary

\* the condenser stage about to run at a site off the ISO temperature: the
\* traces of four stages are held, the GT stage has been handed the ambient
\* corrections that derate its power
C15_Witness ==
    /\ pc = "stage" /\ stage = 5
    /\ TraceLocals \ {"condenser_trace", "summary_trace"} \subseteq DOMAIN locals
    /\ locals.ambient_trace.power_multiplier # ROne
    /\ locals.gt_trace.power_multiplier = locals.ambient_trace.power_multiplier

\* the flow, pressure and power fields of the block results of a finished
\* run, fuel_flow_kg_s apart
BlockFields ==
    LET r == artifacts[1].result
    IN  {r.gt_block.electric_power_MW, r.gt_block.exhaust.flow_kg_s,
         r.gt_block.fuel_heat_input_MW_LHV,
         r.st_block.gross_mech_power_MW, r.st_block.electric_power_MW,
         r.st_block.hp_section.exhaust_P_bar, r.st_block.ip_section.exhaust_P_bar,
         r.st_block.lp_section.exhaust_kPa_abs,
         r.condenser_block.lp_flow_kg_s, r.condenser_block.heat_rejected_MW}
        \cup {r.hrsg_block[level].steam_flow_kg_s : level \in Levels}
        \cup {r.hrsg_block[level].steam_P_bar : level \in Levels}
        \cup UNION {{r.st_block[section].flow_kg_s, r.st_block[section].inlet_P_bar,
                     r.st_block[section].power_MW} :
                        section \in {"hp_section", "ip_section", "lp_section"}}

FuelFlow == artifacts[1].result.gt_block.fuel_flow_kg_s

IsNumber(v) == v # None

NonNegative(v) == IsNumber(v) /\ RLe(RZero, v)

\* the case supplies a fuel LHV that is not zero
FuelLHVSupplied ==
    /\ Has(CaseSection(case_data, "gas_turbine"), "fuel_LHV_kJ_per_kg")
    /\ RTruthy(case_data.gas_turbine.fuel_LHV_kJ_per_kg)

\* the nameplate values, the fuel LHV, the level pressures, the duct burner
\* duty, the mechanical efficiency and the condenser pressure of the case
\* are not negative, and the corrected multipliers of the GT are not negative
NonNegativeInputs ==
    /\ \A key \in {"ISO_power_MW", "ISO_heat_rate_kJ_per_kWh", "ISO_exhaust_flow_kg_s",
                    "fuel_LHV_kJ_per_kg"} :
           RLe(RZero, Get(CaseSection(case_data, "gas_turbine"), key, RZero))
    /\ RLe(RZero, artifacts[1].result.gt_block.correction_summary.power_multiplier)
    /\ RLe(RZero, artifacts[1].result.gt_block.correction_summary.flow_multiplier)
    /\ \A level \in Levels :
           RLe(RZero, Get(Get(CaseSection(case_data, "hrsg"), level, EmptyDict),
                          "pressure_bar", RZero))
    /\ RLe(RZero, Get(Get(Get(CaseSection(case_data, "hrsg"), "devices", EmptyDict),
                          "duct_burner", EmptyDict), "duty_MW", RZero))
    /\ RLe(RZero, artifacts[1].result.st_block.mech_elec_eff)
    /\ RLe(RZero, Get(CaseSection(case_data, "condenser"), "vacuum_kPa_abs", RInt(8)))

\* C16 as stated: for every case every flow, pressure and power field of
\* every block result is a number and is non-negative.
C16_AsStated ==
    pc = "done" => \A v \in BlockFields \cup {FuelFlow} : NonNegative(v)

\* C16, amended: every flow, pressure and power field of every block result
\* is a number, except that fuel_flow_kg_s is null exactly when the case
\* supplies no fuel LHV (or a zero one); and all of them are non-negative
\* when the nameplate values, fuel LHV, level pressures, duct burner duty,
\* mechanical efficiency and condenser pressure of the case and the
\* corrected power and flow multipliers of the GT are non-negative.
C16_NumbersNonNegative ==
    pc = "done" =>
        /\ \A v \in BlockFields : IsNumber(v)
        /\ IsNumber(FuelFlow) = FuelLHVSupplied
        /\ NonNegativeInputs =>
               /\ \A v \in BlockFields : NonNegative(v)
               /\ IsNumber(FuelFlow) => NonNegative(FuelFlow)

\* a finished run of a case with a bypass fraction of 1.5: the exhaust flow
\* through the HRSG is not reduced, and every field is non-negative
C16_Witness ==
    /\ pc = "done"
    /\ case_data = CaseOverBypass
    /\ NonNegativeInputs
    /\ RLt(RZero, artifacts[1].result.hrsg_block.hp.steam_flow_kg_s)
    /\ NonNegative(FuelFlow)

\* C17: no stage rejects its input: for a case in which an optional field
\* or section is missing or malformed, hrsg.devices or hrsg.constraints not
\* a mapping included, run_pipeline substitutes a default and returns
\* normally (no exception of a stage leaves it).
C17_NoStageRejects == pc # "failed"

\* the runs of the cases the claim is about that do return normally: the
\* empty case and the case whose hrsg.constraints is not a mapping
C17_DefaultsSubstituted ==
    /\ pc = "done"
    /\ case_data \in {EmptyDict, CaseMalformed("constraints")}
    /\ artifacts[1].result.hrsg_block.converged

\* the attemperator specs of the call that target an existing level
Attemperators ==
    LET specs == hrsg_attemperator_specs(call.input.hrsg)
    IN  {specs[i] : i \in {j \in DOMAIN specs : specs[j].target \in Levels}}

\* no two specs of the call target the same level, and no pinch or approach
\* limit is configured: the temperature before a spec is the configured
\* steam temperature, the temperature after it the one returned
OneSprayPerLevel ==
    /\ HrsgCalled
    /\ call.input \in HrsgSprayContexts

TempBefore(spec) == call.input.hrsg[spec.target].steam_temp_C

TempAfter(spec) == call.output[1][spec.target].steam_T_C

SprayTarget(spec) == Get(spec, "steam_temp_C", TempBefore(spec))

SprayLimit(spec) == Get(spec, "m_dot_max_kg_s", RZero)

\* the warning with this code was emitted for the level of the spec
Emitted(code, spec) ==
    \E i \in DOMAIN call.output[1].warnings :
        /\ call.output[1].warnings[i].code = code
        /\ call.output[1].warnings[i].detail[1] = Upper(spec.target)

\* the attemperator warnings of the call are those of the specs that target
\* an existing level, at most one for each
OnlySprayWarnings ==
    /\ Len(call.output[1].warnings) <= Cardinality(Attemperators)
    /\ \A i \in DOMAIN call.output[1].warnings :
          \E spec \in Attemperators :
              /\ call.output[1].warnings[i].code \in {"ATTEMP_NOT_REQUIRED",
                                                       "ATTEMP_LIMIT_REACHED"}
              /\ call.output[1].warnings[i].detail[1] = Upper(spec.target)

\* C18 as stated: ATTEMP_NOT_REQUIRED is emitted exactly when the current
\* temperature is at or below the target (and the temperature is left
\* unchanged), ATTEMP_LIMIT_REACHED exactly when the current temperature is
\* above the target and the resulting temperature is above the target;
\* otherwise no attemperator warning is emitted.
C18_AsStated ==
    OneSprayPerLevel =>
        /\ OnlySprayWarnings
        /\ \A spec \in Attemperators :
              /\ Emitted("ATTEMP_NOT_REQUIRED", spec)
                     = RLe(TempBefore(spec), SprayTarget(spec))
              /\ RLe(TempBefore(spec), SprayTarget(spec)) => TempAfter(spec) = TempBefore(spec)
              /\ Emitted("ATTEMP_LIMIT_REACHED", spec)
                     = (/\ RLt(SprayTarget(spec), TempBefore(spec))
                        /\ RLt(SprayTarget(spec), TempAfter(spec)))

\* C18, amended: ATTEMP_NOT_REQUIRED is emitted exactly when the current
\* temperature is at or below the target (and the temperature is left
\* unchanged); ATTEMP_LIMIT_REACHED is emitted exactly when the current
\* temperature is above the target and the limited spray leaves the
\* resulting temperature more than 0.1 K above the target; otherwise no
\* attemperator warning is emitted, also when the resulting temperature
\* stays above the target by 0.1 K or less.
C18_AttemperatorWarnings ==
    OneSprayPerLevel =>
        /\ OnlySprayWarnings
        /\ \A spec \in Attemperators :
              /\ Emitted("ATTEMP_NOT_REQUIRED", spec)
                     = RLe(TempBefore(spec), SprayTarget(spec))
              /\ RLe(TempBefore(spec), SprayTarget(spec)) => TempAfter(spec) = TempBefore(spec)
              /\ Emitted("ATTEMP_LIMIT_REACHED", spec)
                     = (/\ RLt(SprayTarget(spec), TempBefore(spec))
                        /\ RLt(RAdd(SprayTarget(spec), Rat(1, 10)), TempAfter(spec)))

\* a spray limit of half the steam flow: the HP steam is cooled from 595 C
\* half way to the target of 495 C, with ATTEMP_LIMIT_REACHED
C18_Witness ==
    /\ OneSprayPerLevel
    /\ \E spec \in Attemperators :
          /\ spec = [target |-> "hp", steam_temp_C |-> RInt(495), m_dot_max_kg_s |-> Rat(23, 2)]
          /\ TempAfter(spec) = RInt(545)
          /\ Emitted("ATTEMP_LIMIT_REACHED", spec)
          /\ ~Emitted("ATTEMP_NOT_REQUIRED", spec)

\* a lies between b and c
Between(a, b, c) == (RLe(b, a) /\ RLe(a, c)) \/ (RLe(c, a) /\ RLe(a, b))

\* the spray limit is at least the steam flow of the level and the current
\* temperature exceeds the target
FullSpray(spec) ==
    /\ RLe(call.output[1][spec.target].steam_flow_kg_s, SprayLimit(spec))
    /\ RLt(SprayTarget(spec), TempBefore(spec))

HrsgCalledTwice == call.fn = "solve_hrsg_block_twice"

GtCalled == call.fn = "solve_gt_block"

\* the call of solve_gt_block raised
GtRaised == gt_vendor_curve_raises(call.input[1].gas_turbine, call.input[2])

\* GT: multipliers, electric power, fuel heat input and fuel flow
GtTraceAgrees(out) ==
    /\ out[2].power_multiplier = out[1].correction_summary.power_multiplier
    /\ out[2].flow_multiplier = out[1].correction_summary.flow_multiplier
    /\ out[2].fuel_heat_input_calculation.electric_power_MW = out[1].electric_power_MW
    /\ out[2].fuel_heat_input_calculation.fuel_heat_input_MW_LHV
         = out[1].fuel_heat_input_MW_LHV
    /\ out[2].fuel_heat_input_calculation.fuel_flow_kg_s = out[1].fuel_flow_kg_s

\* HRSG: per-level steam flow, stack temperature, available heat (kJ/s in
\* the trace, MW in the result) and warnings
HrsgTraceAgrees(out) ==
    /\ \A i \in 1..3 :
          /\ out[2].level_calculations[i].level = LEVEL_ORDER[i]
          /\ out[2].level_calculations[i].resulting_flow_kg_s
               = out[1][LEVEL_ORDER[i]].steam_flow_kg_s
    /\ out[2].stack_temp_target_C = out[1].stack_temp_C
    /\ out[2].available_heat_kJ_per_s = RMul(out[1].available_heat_MW, RInt(1000))
    /\ out[2].warnings = out[1].warnings

\* ST: electric power and section flows
StTraceAgrees(out) ==
    /\ out[2].electric_power_MW = out[1].electric_power_MW
    /\ out[2].hp.flow_kg_s = out[1].hp_section.flow_kg_s
    /\ out[2].ip.flow_kg_s = out[1].ip_section.flow_kg_s
    /\ out[2].lp.flow_kg_s = out[1].lp_section.flow_kg_s

\* condenser: heat rejected, condensing temperature and lp flow
CondenserTraceAgrees(out) ==
    /\ out[2].heat_rejected_MW = out[1].heat_rejected_MW
    /\ out[2].condensing_temp_C = out[1].condensing_temp_C
    /\ out[2].lp_flow_kg_s = out[1].lp_flow_kg_s

\* the steam temperature a trace entry stands for when the steam is not
\* colder than the feedwater: feedwater temperature + sensible heat / cp
TempFromEnergy(trace, i) ==
    RAdd(trace.feedwater_temp_C,
         RDiv(RSub(trace.level_calculations[i].specific_energy_kJ_per_kg,
                   LATENT_HEAT_KJ_PER_KG),
              CP_FEEDWATER_KJ_PER_KG_K))

\* the level temperatures and flows worked out from the trace alone: the
\* flows and specific energies of level_calculations, the feedwater
\* temperature, and the attemperators recorded under devices
LevelsFromTrace(trace) ==
    hrsg_attemperators(
        [levels |-> [level \in Levels |->
                        LET i == CHOOSE k \in 1..3 : LEVEL_ORDER[k] = level
                        IN  [steam_flow_kg_s |-> trace.level_calculations[i].resulting_flow_kg_s,
                             steam_T_C |-> TempFromEnergy(trace, i)]],
         warnings |-> <<>>],
        hrsg_attemperator_specs([devices |-> trace.devices])).levels

\* no level of the context is configured with steam colder than the feedwater
NoSubcooledLevel(ctx) ==
    \A level \in Levels :
        RLe(ctx.hrsg.feedwater_temp_C,
            Get(ctx.hrsg[level], "steam_temp_C", ctx.hrsg.feedwater_temp_C))

\* steam flow and steam temperature of every level result follow from the trace
LevelsDerived(ctx, out) ==
    NoSubcooledLevel(ctx) =>
        \A level \in Levels :
            /\ out[1][level].steam_flow_kg_s = LevelsFromTrace(out[2])[level].steam_flow_kg_s
            /\ out[1][level].steam_T_C = LevelsFromTrace(out[2])[level].steam_T_C

\* C20 as stated, for the HRSG level results: every value in an HRSG level
\* result is derivable from values recorded in the HRSG trace, so two calls
\* that record the same trace return the same level results.
C20_AsStated ==
    HrsgCalledTwice =>
        (call.output[1][2] = call.output[2][2] =>
            \A level \in Levels : call.output[1][1][level] = call.output[2][1][level])

\* C20, amended: for every quantity that appears in both, the trace value
\* of a stage equals the result value (up to the factor 1000 between kJ/s
\* and MW); the steam flow of an HRSG level result and, when no level is
\* configured with steam colder than the feedwater, its steam temperature
\* after attemperation are derivable from the HRSG trace, so two calls that
\* record the same trace return the same flows and, with no such level, the
\* same temperatures; the steam pressure is not recorded in the trace.
C20_TraceAgrees ==
    /\ (GtCalled /\ ~GtRaised) => GtTraceAgrees(call.output)
    /\ HrsgCalled =>
          HrsgTraceAgrees(call.output) /\ LevelsDerived(call.input, call.output)
    /\ call.fn = "solve_steam_turbine" => StTraceAgrees(call.output)
    /\ CondenserCalled => CondenserTraceAgrees(call.output)
    /\ SummaryCalled =>
          call.output[3].balance.closure_error_pct = call.output[2].closure_error_pct
    /\ HrsgCalledTwice =>
          /\ \A n \in 1..2 :
                /\ HrsgTraceAgrees(call.output[n])
                /\ LevelsDerived(call.input[n], call.output[n])
          /\ call.output[1][2] = call.output[2][2] =>
                \A level \in Levels :
                    /\ call.output[1][1][level].steam_flow_kg_s
                         = call.output[2][1][level].steam_flow_kg_s
                    /\ (NoSubcooledLevel(call.input[1]) /\ NoSubcooledLevel(call.input[2])) =>
                           call.output[1][1][level].steam_T_C
                               = call.output[2][1][level].steam_T_C

\* two calls that differ in the HP pressure only, with an attemperator
\* limited to half the steam flow: the same trace, the HP steam at 545 C
\* after the spray in both and as worked out from the trace, and two
\* different steam pressures
C20_Witness ==
    /\ HrsgCalledTwice
    /\ call.input[1] # call.input[2]
    /\ call.output[1][2] = call.output[2][2]
    /\ call.output[1][1].hp.steam_T_C = RInt(545)
    /\ LevelsFromTrace(call.output[1][2]).hp.steam_T_C = RInt(545)
    /\ call.output[1][1].hp.steam_P_bar # call.output[2][1].hp.steam_P_bar

\* the performance_blend of the call is configured and cannot be applied:
\* its mode is not a known mode, or its mode is vendor_blend and the curve id
\* is missing or does not resolve
BlendNotApplicable ==
    LET gas_turbine == call.input[1].gas_turbine
        env == call.input[2]
    IN  /\ Has(gas_turbine, "performance_blend")
        /\ \/ Get(gas_turbine.performance_blend, "mode", "linear")
                 \notin {"linear", "vendor_blend"}
           \/ /\ Get(gas_turbine.performance_blend, "mode", "linear") = "vendor_blend"
              /\ \/ ~Has(gas_turbine.performance_blend, "vendor_curve_id")
                 \/ ~env.path_set
                 \/ ~env.readable
                 \/ ~IsMapping(env.data)
                 \/ ~Has(env.data, gas_turbine.performance_blend.vendor_curve_id)

\* the multipliers and the exhaust-temperature delta of the result are the
\* ones of the corrections passed in
Unblended ==
    LET corrections == Get(call.input[1], "corrections", EmptyDict)
        summary == call.output[1].correction_summary
    IN  /\ summary.power_multiplier = Get(corrections, "power_multiplier", ROne)
        /\ summary.flow_multiplier = Get(corrections, "flow_multiplier", ROne)
        /\ summary.temperature_offset_C = Get(corrections, "exhaust_temp_delta_C", RZero)

\* C21 as stated: whenever a performance_blend is configured but cannot be
\* applied (unknown mode, or vendor_blend with a curve id that is missing or
\* does not resolve), solve_gt_block raises no error, records a note in
\* vendor_notes and uses exactly the unblended multipliers and
\* exhaust-temperature delta.
C21_AsStated ==
    (GtCalled /\ BlendNotApplicable) =>
        /\ ~GtRaised
        /\ call.output[2].vendor_notes # <<>>
        /\ Unblended

\* C21, amended: whenever a performance_blend is configured but cannot be
\* applied and load_vendor_curve does not itself fail, solve_gt_block
\* returns with exactly the unblended multipliers and exhaust-temperature
\* delta; a note is recorded for an unknown mode and for a curve id that
\* resolves to nothing, and no note is recorded when the mode is
\* vendor_blend and the curve id is missing. The call raises only when the
\* curve is looked up in a file whose content is not a JSON object.
C21_BlendNotes ==
    (GtCalled /\ BlendNotApplicable) =>
        IF GtRaised
        THEN /\ Has(call.input[1].gas_turbine.performance_blend, "vendor_curve_id")
             /\ ~IsMapping(call.input[2].data)
        ELSE /\ Unblended
             /\ call.output[2].vendor_notes = <<>>
                  <=> (/\ call.input[1].gas_turbine.performance_blend.mode = "vendor_blend"
                       /\ ~Has(call.input[1].gas_turbine.performance_blend,
                               "vendor_curve_id"))

\* a vendor blend whose curve is not in the file, on corrections other than
\* the defaults: a note is recorded and the multiplier passed in is used
C21_Witness ==
    /\ GtCalled
    /\ BlendNotApplicable
    /\ ~GtRaised
    /\ call.input[1].gas_turbine.performance_blend.mode = "vendor_blend"
    /\ call.output[2].vendor_notes # <<>>
    /\ call.output[1].correction_summary.power_multiplier = Rat(5, 4)

\* the call is one run_pipeline makes: the corrections are the ones of
\* apply_site_corrections, and the site temperature is the reference one
AtReferenceTemp ==
    /\ GtCalled
    /\ Has(call.input[1], "ambient")
    /\ Get(call.input[1].ambient, "Ta_C", ISO_REFERENCE_TEMP_C)
         = Get(call.input[1].gas_turbine.corr_coeff, "reference_temp_C",
               ISO_REFERENCE_TEMP_C)

\* C22: when Ta_C equals the reference temperature, apply_site_corrections
\* returns power_multiplier = 1, flow_multiplier = 1 and
\* exhaust_temp_delta_C = 0 for every choice of coefficients, and
\* solve_gt_block without a vendor blend then returns electric_power_MW =
\* ISO_power_MW and fuel_heat_input_MW_LHV = ISO_heat_rate x ISO_power / 3600.
C22_IsoReference ==
    AtReferenceTemp =>
        /\ call.input[1].corrections.power_multiplier = ROne
        /\ call.input[1].corrections.flow_multiplier = ROne
        /\ call.input[1].corrections.exhaust_temp_delta_C = RZero
        /\ ~Has(call.input[1].gas_turbine, "performance_blend") =>
              /\ call.output[1].electric_power_MW = call.input[1].gas_turbine.ISO_power_MW
              /\ call.output[1].fuel_heat_input_MW_LHV
                   = RDiv(RMul(call.input[1].gas_turbine.ISO_heat_rate_kJ_per_kWh,
                               call.input[1].gas_turbine.ISO_power_MW), RInt(3600))

\* a site at a reference temperature of 25 C other than the ISO one, with
\* non-zero coefficients and no vendor blend: 300 MW and 750 MW of fuel heat
C22_Witness ==
    /\ AtReferenceTemp
    /\ call.input[1].ambient = [Ta_C |-> RInt(25)]
    /\ Get(call.input[1].gas_turbine.corr_coeff, "dPower_pct_per_K", RZero) = Rat(1, 2)
    /\ ~Has(call.input[1].gas_turbine, "performance_blend")
    /\ call.output[1].electric_power_MW = RInt(300)
    /\ call.output[1].fuel_heat_input_MW_LHV = RInt(750)

StCalled == call.fn = "solve_steam_turbine"

\* the specific work of a section is between 0 and cp_steam x max(T_in - T_sat, 5)
SectionWorkBounded(section) ==
    /\ RLe(RZero, section.delta_h_kJ_per_kg)
    /\ RLe(section.delta_h_kJ_per_kg,
           RMul(CP_STEAM_KJ_PER_KG_K,
                RMax(RSub(section.inlet_temp_C, section.exhaust_temp_C), MIN_DELTA_T_C)))

\* C23: every efficiency the ST solver uses (isentropic_eff_hp/ip/lp and
\* mech_elec_eff) is clamped to [0,1] before use, so for every input each
\* section's specific work is between 0 and cp_steam x max(T_in - T_sat, 5)
\* and electric_power_MW is between 0 and gross_mech_power_MW.
C23_EfficienciesClamped ==
    StCalled =>
        /\ \A level \in Levels : SectionWorkBounded(call.output[2][level])
        /\ RLe(RZero, call.output[1].electric_power_MW)
        /\ RLe(call.output[1].electric_power_MW, call.output[1].gross_mech_power_MW)

\* the part of C23 the code keeps: the isentropic efficiencies are clamped,
\* and the electric power is gross_mech_power_MW x mech_elec_eff as configured
C23_IsentropicClamped ==
    StCalled =>
        /\ \A level \in Levels : SectionWorkBounded(call.output[2][level])
        /\ call.output[1].electric_power_MW
             = RMul(call.output[1].gross_mech_power_MW,
                    Get(Get(call.input, "steam_turbine", EmptyDict), "mech_elec_eff",
                        Rat(985, 1000)))

\* the duct burner of the call, or the empty dict
DuctBurner == Get(Get(call.input.hrsg, "devices", EmptyDict), "duct_burner", EmptyDict)

\* usable exhaust flow x 1.15 x max(exhaust_temp - stack_temp, 0) + duty_MW x 1000
HeatAbove(stack_temp) ==
    RAdd(RMul(RMul(call.output[2].exhaust_flow_kg_s, CP_EXHAUST_GAS_KJ_PER_KG_K),
              RMax(RSub(call.output[2].exhaust_temp_C, stack_temp), RZero)),
         RMul(Get(DuctBurner, "duty_MW", RZero), RInt(1000)))

\* C24: the available heat the HRSG reports is consistent with the stack
\* temperature it reports: available_heat_kJ_per_s = usable exhaust flow x
\* 1.15 x max(exhaust_temp - stack_temp_target, 0) + duty_MW x 1000 with
\* stack_temp_target the value reported as stack_temp_C, including when a
\* duct burner's stack_temp_cap_C lowers it below stack_temp_min_C.
C24_HeatConsistent ==
    HrsgCalled =>
        /\ call.output[2].stack_temp_target_C = call.output[1].stack_temp_C
        /\ call.output[2].available_heat_kJ_per_s = HeatAbove(call.output[1].stack_temp_C)

\* what the code computes: the heat above stack_temp_min_C, whatever the
\* duct burner's cap makes of the reported stack temperature
C24_HeatAboveStackMin ==
    HrsgCalled =>
        call.output[2].available_heat_kJ_per_s
            = HeatAbove(Get(call.input.hrsg, "stack_temp_min_C", RInt(90)))

\* a duct burner whose cap of 80 C lies under stack_temp_min_C = 90 C: the
\* stack is reported at 80 C and the heat is the one above 90 C
C24_CapUnderStackMin ==
    /\ HrsgCalled
    /\ Has(DuctBurner, "stack_temp_cap_C")
    /\ call.output[1].stack_temp_C = RInt(80)
    /\ call.output[2].available_heat_kJ_per_s = HeatAbove(RInt(90))
    /\ call.output[2].available_heat_kJ_per_s # HeatAbove(RInt(80))

\* the warning with this code was emitted for the level
EmittedFor(code, level) ==
    \E i \in DOMAIN call.output[1].warnings :
        /\ call.output[1].warnings[i].code = code
        /\ call.output[1].warnings[i].detail[1] = Upper(level)

\* the steam temperature configured for the level: the one before any spray
ConfiguredTemp(level) ==
    Get(call.input.hrsg[level], "steam_temp_C", call.input.hrsg.feedwater_temp_C)

\* the level results as configured, before any spray
BeforeSpray == [level \in Levels |-> [steam_T_C |-> ConfiguredTemp(level)]]

\* the context of the call with the attemperators taken out
WithoutAttemperators ==
    IF Has(call.input.hrsg, "devices") /\ Has(call.input.hrsg.devices, "attemperators")
    THEN [call.input EXCEPT !.hrsg.devices.attemperators = <<>>]
    ELSE call.input

\* the steam flow allocated to a level: its heat share over the specific
\* energy at the configured steam temperature
AllocatedFlow(i) ==
    RDiv(call.output[2].level_calculations[i].heat_share_kJ_per_s,
         _specific_energy_required(ConfiguredTemp(LEVEL_ORDER[i]),
                                   call.input.hrsg.feedwater_temp_C))

\* C25: the pinch and approach checks of solve_hrsg_block run after all
\* attemperators and use each level's steam temperature after the spray,
\* while each level's steam flow stays the value allocated from the
\* temperature before the spray: an attemperator never changes any
\* steam_flow_kg_s.
C25_ChecksAfterSpray ==
    HrsgCalled =>
        \A i \in 1..3 :
            /\ EmittedFor("HRSG_PINCH_VIOLATION", LEVEL_ORDER[i])
                 <=> PinchViolated(call.input, call.output[1], LEVEL_ORDER[i])
            /\ EmittedFor("HRSG_APPROACH_VIOLATION", LEVEL_ORDER[i])
                 <=> ApproachViolated(call.input, call.output[1], LEVEL_ORDER[i])
            /\ call.output[1][LEVEL_ORDER[i]].steam_flow_kg_s = AllocatedFlow(i)
            /\ call.output[1][LEVEL_ORDER[i]].steam_flow_kg_s
                 = solve_hrsg_block(WithoutAttemperators)[1][LEVEL_ORDER[i]].steam_flow_kg_s

\* an attemperator that lowers the HP steam from 595 C to 108 C turns a
\* level that passes both checks at 595 C into a pinch violation, and the
\* HP steam flow is the one of the call without the attemperator
C25_Witness ==
    /\ HrsgCalled
    /\ ConfiguredTemp("hp") = RInt(595)
    /\ call.output[1].hp.steam_T_C = RInt(108)
    /\ ~PinchViolated(call.input, BeforeSpray, "hp")
    /\ ~ApproachViolated(call.input, BeforeSpray, "hp")
    /\ EmittedFor("HRSG_PINCH_VIOLATION", "hp")
    /\ WithoutAttemperators # call.input
    /\ call.output[1].hp.steam_flow_kg_s
         = solve_hrsg_block(WithoutAttemperators)[1].hp.steam_flow_kg_s

\* pinch_K and approach_K of the level are both positive
BothLimits(level) ==
    /\ RLt(RZero, LevelLimit(call.input.hrsg, level, "pinch_K"))
    /\ RLt(RZero, LevelLimit(call.input.hrsg, level, "approach_K"))

\* pinch_K + approach_K of the level
LimitSum(level) ==
    RAdd(LevelLimit(call.input.hrsg, level, "pinch_K"),
         LevelLimit(call.input.hrsg, level, "approach_K"))

\* pinch_mode is advisory and approach_mode is enforce
OnlyPinchAdvisory ==
    /\ ConfiguredMode(call.input.hrsg, "pinch_mode") = "advisory"
    /\ ConfiguredMode(call.input.hrsg, "approach_mode") = "enforce"

\* C26 as stated: for every level whose pinch_K and approach_K are both
\* positive, HRSG_PINCH_VIOLATION is emitted for the level if and only if
\* HRSG_APPROACH_VIOLATION is, both exactly when steam_T - feedwater_T <
\* pinch_K + approach_K; and with only pinch_mode advisory (approach_mode
\* enforce) converged is never true when such a level is in violation.
C26_AsStated ==
    HrsgCalled =>
        \A level \in {l \in Levels : BothLimits(l)} :
            /\ EmittedFor("HRSG_PINCH_VIOLATION", level)
                 <=> EmittedFor("HRSG_APPROACH_VIOLATION", level)
            /\ EmittedFor("HRSG_PINCH_VIOLATION", level)
                 <=> RLt(SteamOverFeedwater(call.input, call.output[1], level),
                         LimitSum(level))
            /\ (OnlyPinchAdvisory /\ EmittedFor("HRSG_PINCH_VIOLATION", level)) =>
                   ~call.output[1].converged

\* C26, amended: for every level whose pinch_K and approach_K are both
\* positive, both warnings are emitted when steam_T - feedwater_T lies under
\* pinch_K + approach_K and neither when it lies over it (on the boundary
\* itself the two checks round differently and one may be emitted without
\* the other); with only pinch_mode advisory and a level under the boundary,
\* converged is false unless allow_relaxed_pinch is set, and true with the
\* flag set when nothing else is violated.
C26_PinchWithApproach ==
    HrsgCalled =>
        \A level \in {l \in Levels : BothLimits(l)} :
            /\ RLt(SteamOverFeedwater(call.input, call.output[1], level), LimitSum(level)) =>
                  /\ EmittedFor("HRSG_PINCH_VIOLATION", level)
                  /\ EmittedFor("HRSG_APPROACH_VIOLATION", level)
                  /\ (OnlyPinchAdvisory /\ ~FlagSet(call.input, "allow_relaxed_pinch")) =>
                         ~call.output[1].converged
                  /\ (/\ OnlyPinchAdvisory
                      /\ FlagSet(call.input, "allow_relaxed_pinch")
                      /\ ~StackViolated(call.input, call.output[1])) =>
                         call.output[1].converged
            /\ RLt(LimitSum(level), SteamOverFeedwater(call.input, call.output[1], level)) =>
                  /\ ~EmittedFor("HRSG_PINCH_VIOLATION", level)
                  /\ ~EmittedFor("HRSG_APPROACH_VIOLATION", level)

\* the HP steam sprayed to 13 K over the feedwater against a pinch of 10 K
\* and an approach of 5 K, pinch_mode advisory and approach_mode enforce, no
\* flag set: both warnings, not converged
C26_Witness ==
    /\ HrsgCalled
    /\ BothLimits("hp")
    /\ SteamOverFeedwater(call.input, call.output[1], "hp") = RInt(13)
    /\ OnlyPinchAdvisory
    /\ ~FlagSet(call.input, "allow_relaxed_pinch")
    /\ EmittedFor("HRSG_PINCH_VIOLATION", "hp")
    /\ EmittedFor("HRSG_APPROACH_VIOLATION", "hp")
    /\ ~call.output[1].converged

\* on the boundary, with pinch 0.1 K and approach 0.4 K: the pinch warning
\* without the approach warning
C26_BoundaryRounding ==
    /\ HrsgCalled
    /\ BothLimits("hp")
    /\ SteamOverFeedwater(call.input, call.output[1], "hp") = LimitSum("hp")
    /\ EmittedFor("HRSG_PINCH_VIOLATION", "hp")
    /\ ~EmittedFor("HRSG_APPROACH_VIOLATION", "hp")

Finished == pc = "done"

\* the energy-balance residual fuel_heat_input - (GT_power + ST_power) of the run
RunResidual ==
    RSub(artifacts[1].trace.condenser_block.fuel_heat_input_MW,
         artifacts[1].trace.condenser_block.electric_power_MW)

\* the condenser's bottom-up latent + sensible estimate of the run
RunEstimate ==
    RDiv(RMul(artifacts[1].trace.condenser_block.lp_flow_kg_s,
              RAdd(LATENT_CONDENSATION_KJ_PER_KG,
                   RMul(CP_WATER_KJ_PER_KG_K,
                        artifacts[1].trace.condenser_block.sensible_drop_C))),
         RInt(1000))

RunClosure == artifacts[1].result.mass_energy_balance.closure_error_pct

\* no closure warning, and the plant verdict is the HRSG converged flag
CleanVerdict ==
    /\ Codes(artifacts[1].result.meta.warnings)
         \cap {"CLOSURE_GT_0P5", "CLOSURE_NEAR_LIMIT"} = {}
    /\ artifacts[1].result.mass_energy_balance.converged
         = artifacts[1].result.hrsg_block.converged

\* what stands for the rounding error of the heat balance: a thousandth of
\* a percent
RoundingPct == Rat(1, 1000)

C27_EstimateOverResidual ==
    /\ Finished
    /\ RLt(RunResidual, RunEstimate)
    /\ RLt(Rat(1, 2), RunClosure)
    /\ "CLOSURE_GT_0P5" \in Codes(artifacts[1].result.meta.warnings)

\* ------------------------------------------------------------------------
\* ui/model.py: CaseModel
\* ------------------------------------------------------------------------

\* A nested dictionary stands as the record [dicts, leaves]: dicts the paths
\* (tuples of keys) that hold a mapping, the root <<>> among them, and leaves
\* the function from the paths that hold a scalar to the scalar. A tree with
\* neither stands for None, one with the only leaf <<>> for a scalar.

\* the paths the calls are addressed to
Paths == {<<>>, <<"a">>, <<"a", "b">>}

MaxCalls == 3

\* target[: len(locked)] == locked
StartsWith(path, prefix) ==
    Len(prefix) <= Len(path) /\ SubSeq(path, 1, Len(prefix)) = prefix

\* _resolve_path(data, path): what the walk along path arrives at, its own
\* paths counted from there; None when the walk leaves the mappings
_resolve_path(data, path) ==
    [dicts |-> {SubSeq(q, Len(path) + 1, Len(q)) :
                    q \in {d \in data.dicts : StartsWith(d, path)}},
     leaves |-> [r \in {SubSeq(q, Len(path) + 1, Len(q)) :
                           q \in {l \in DOMAIN data.leaves : StartsWith(l, path)}}
                   |-> data.leaves[path \o r]]]

\* _assign_path(data, path, value): every key of path[:-1] that holds no
\* mapping is given an empty one, and the last key the value
_assign_path(data, path, value) ==
    LET parents == {SubSeq(path, 1, n) : n \in 0..(Len(path) - 1)}
        kept == {q \in DOMAIN data.leaves : ~StartsWith(q, path) /\ q \notin parents}
    IN  [dicts |-> {d \in data.dicts : ~StartsWith(d, path)} \cup parents,
         leaves |-> [q \in kept \cup {path} |->
                        IF q = path THEN value ELSE data.leaves[q]]]

\* _delete_path(data, path): nothing when a key of path[:-1] holds no
\* mapping, else the last key is popped with all it holds
_delete_path(data, path) ==
    IF \E n \in 1..(Len(path) - 1) : SubSeq(path, 1, n) \notin data.dicts
    THEN data
    ELSE [dicts |-> {d \in data.dicts : ~StartsWith(d, path)},
          leaves |-> [q \in {l \in DOMAIN data.leaves : ~StartsWith(l, path)}
                        |-> data.leaves[q]]]

\* CaseModel.is_locked(path)
is_locked(self, path) ==
    \E locked \in self.locked_paths : StartsWith(path, locked)

\* _push_history_snapshot with a snapshot that leaves the locked paths out
_push_history_snapshot_without_locks(self) ==
    LET snapshot == <<self.case_data, {}>>
        stack == Append(self._undo_stack, snapshot)
    IN  [self EXCEPT
            !._undo_stack = IF Len(stack) > self.max_history THEN Tail(stack) ELSE stack,
            !._redo_stack = <<>>]

\* CaseModel._push_history_snapshot(): the snapshot is a deep copy of
\* case_data with the sorted tuple of locked_paths, which stands as the set
\* it is turned back into; a deque of maxlen max_history drops its oldest
\* entry when it is full
_push_history_snapshot(self) ==
    LET snapshot == <<self.case_data, self.locked_paths>>
        stack == Append(self._undo_stack, snapshot)
    IN  [self EXCEPT
            !._undo_stack = IF Len(stack) > self.max_history THEN Tail(stack) ELSE stack,
            !._redo_stack = <<>>]

\* CaseModel(bus, max_history): no case data, no locks, empty stacks; no run
\* of the pipeline is in progress
ModelInit ==
    /\ case_data = EmptyDict
    /\ backend = "coolprop"
    /\ progress_callback = FALSE
    /\ cancel_event = FALSE
    /\ cancel_flag = FALSE
    /\ pc = "idle"
    /\ stage = 1
    /\ context = EmptyDict
    /\ locals = EmptyDict
    /\ artifacts = <<>>
    /\ progress = <<>>
    /\ events = <<>>
    /\ cancel_at = <<>>
    /\ vendor_env = [path_set |-> FALSE, readable |-> FALSE, data |-> EmptyDict]
    /\ env_seen = <<>>
    /\ clock = 0
    /\ git_head = "abc123"
    /\ run = 1
    /\ prev = <<>>
    /\ call = NoCall
    /\ \E max_history \in {0, 1, 2} :
          model = [max_history |-> max_history,
                   case_data |-> [dicts |-> {<<>>}, leaves |-> [q \in {} |-> 0]],
                   locked_paths |-> {},
                   _undo_stack |-> <<>>,
                   _redo_stack |-> <<>>,
                   bus |-> <<>>]
    /\ log = <<[op |-> "__init__", path |-> <<>>, record_history |-> FALSE, model |-> model]>>

\* set_value(path, value, record_history=...)
SetValue ==
    /\ model # NoModel
    /\ Len(log) <= MaxCalls
    /\ \E path \in Paths, value \in {1, 2}, record_history \in BOOLEAN :
          /\ model' =
                IF path = <<>> THEN [model EXCEPT !.bus = <<>>]
                ELSE IF is_locked(model, path)
                THEN [model EXCEPT !.bus = <<"lock_violation">>]
                ELSE IF _resolve_path(model.case_data, path)
                          = [dicts |-> {}, leaves |-> [r \in {<<>>} |-> value]]
                THEN [model EXCEPT !.bus = <<>>]
                ELSE [(IF record_history THEN _push_history_snapshot(model) ELSE model)
                         EXCEPT !.case_data = _assign_path(model.case_data, path, value),
                                !.bus = <<"value_changed", "history_changed">>]
          /\ log' = Append(log, [op |-> "set_value", path |-> path,
                                 record_history |-> record_history, model |-> model'])
    /\ UNCHANGED <<pipeline_vars, call>>

\* delete_path(path)
DeletePath ==
    /\ model # NoModel
    /\ Len(log) <= MaxCalls
    /\ \E path \in Paths :
          /\ model' =
                IF path = <<>> THEN [model EXCEPT !.bus = <<>>]
                ELSE IF is_locked(model, path)
                THEN [model EXCEPT !.bus = <<"lock_violation">>]
                ELSE IF _resolve_path(model.case_data, path)
                          = [dicts |-> {}, leaves |-> [r \in {} |-> 0]]
                THEN [model EXCEPT !.bus = <<>>]
                ELSE [_push_history_snapshot(model)
                         EXCEPT !.case_data = _delete_path(model.case_data, path),
                                !.bus = <<"value_changed", "history_changed">>]
          /\ log' = Append(log, [op |-> "delete_path", path |-> path,
                                 record_history |-> TRUE, model |-> model'])
    /\ UNCHANGED <<pipeline_vars, call>>

\* set_locked(path, locked, record_history=...)
SetLocked ==
    /\ model # NoModel
    /\ Len(log) <= MaxCalls
    /\ \E path \in Paths, locked \in BOOLEAN, record_history \in BOOLEAN :
          /\ model' =
                IF locked = (path \in model.locked_paths)
                THEN [model EXCEPT !.bus = <<>>]
                ELSE [(IF record_history THEN _push_history_snapshot(model) ELSE model)
                         EXCEPT !.locked_paths =
                                    IF locked
                                    THEN model.locked_paths \cup {path}
                                    ELSE {item \in model.locked_paths :
                                             item # path /\ ~StartsWith(item, path)},
                                !.bus = <<"locks_changed", "history_changed", "lock_toggled">>]
          /\ log' = Append(log, [op |-> "set_locked", path |-> path,
                                 record_history |-> record_history, model |-> model'])
    /\ UNCHANGED <<pipeline_vars, call>>

\* load_case(data): data holds the case and, under "_ui", the list of the
\* locked paths, each a list of keys
LoadCase ==
    /\ model # NoModel
    /\ Len(log) <= MaxCalls
    /\ \E data \in {[case |-> [dicts |-> {<<>>}, leaves |-> [q \in {} |-> 0]],
                     _ui |-> <<>>],
                    [case |-> [dicts |-> {<<>>, <<"a">>},
                               leaves |-> [q \in {<<"a", "b">>} |-> 1]],
                     _ui |-> << <<"a", "b">> >>]} :
          /\ model' = [model EXCEPT
                          !.case_data = data.case,
                          !.locked_paths = {data._ui[i] : i \in DOMAIN data._ui},
                          !._undo_stack = <<>>,
                          !._redo_stack = <<>>,
                          !.bus = <<"case_loaded", "locks_changed", "result_cleared",
                                    "history_changed">>]
          /\ log' = Append(log, [op |-> "load_case", path |-> <<>>,
                                 record_history |-> FALSE, model |-> model'])
    /\ UNCHANGED <<pipeline_vars, call>>

\* undo()
Undo ==
    /\ model # NoModel
    /\ Len(log) <= MaxCalls
    /\ model' =
          IF model._undo_stack = <<>> THEN [model EXCEPT !.bus = <<>>]
          ELSE LET snapshot == model._undo_stack[Len(model._undo_stack)]
                   stack == Append(model._redo_stack, <<model.case_data, model.locked_paths>>)
               IN  [model EXCEPT
                       !._undo_stack = SubSeq(model._undo_stack, 1, Len(model._undo_stack) - 1),
                       !._redo_stack = IF Len(stack) > model.max_history
                                       THEN Tail(stack) ELSE stack,
                       !.case_data = snapshot[1],
                       !.locked_paths = snapshot[2],
                       !.bus = <<"case_loaded", "locks_changed", "history_changed">>]
    /\ log' = Append(log, [op |-> "undo", path |-> <<>>, record_history |-> FALSE,
                           model |-> model'])
    /\ UNCHANGED <<pipeline_vars, call>>

\* redo()
Redo ==
    /\ model # NoModel
    /\ Len(log) <= MaxCalls
    /\ model' =
          IF model._redo_stack = <<>> THEN [model EXCEPT !.bus = <<>>]
          ELSE LET snapshot == model._redo_stack[Len(model._redo_stack)]
                   stack == Append(model._undo_stack, <<model.case_data, model.locked_paths>>)
               IN  [model EXCEPT
                       !._redo_stack = SubSeq(model._redo_stack, 1, Len(model._redo_stack) - 1),
                       !._undo_stack = IF Len(stack) > model.max_history
                                       THEN Tail(stack) ELSE stack,
                       !.case_data = snapshot[1],
                       !.locked_paths = snapshot[2],
                       !.bus = <<"case_loaded", "locks_changed", "history_changed">>]
    /\ log' = Append(log, [op |-> "redo", path |-> <<>>, record_history |-> FALSE,
                           model |-> model'])
    /\ UNCHANGED <<pipeline_vars, call>>

ModelNext ==
    \/ SetValue
    \/ DeletePath
    \/ SetLocked
    \/ LoadCase
    \/ Undo
    \/ Redo

ModelSpec == ModelInit /\ [][ModelNext]_vars

\* ------------------------------------------------------------------------
\* Properties of the CaseModel
\* ------------------------------------------------------------------------

\* the calls made so far: entry i of the log, the state before it in entry i - 1
Calls == 2..Len(log)

\* case_data and locked_paths after entry i
Edited(i) == <<log[i].model.case_data, log[i].model.locked_paths>>

\* case_data, locked_paths and both stacks after entry i
Held(i) ==
    <<log[i].model.case_data, log[i].model.locked_paths,
      log[i].model._undo_stack, log[i].model._redo_stack>>

\* call i is an edit that changed case_data or locked_paths
Edit(i) ==
    /\ log[i].op \in {"set_value", "delete_path", "set_locked"}
    /\ Edited(i) # Edited(i - 1)

\* call i is an edit that changed the state and pushed a snapshot
RecordedEdit(i) == Edit(i) /\ log[i].record_history

\* C28 as stated: after any recorded edit (set_value, delete_path or
\* set_locked that changes the state) undo restores case_data and
\* locked_paths to exactly their values before the edit, and a following redo
\* restores exactly their values after it; undo on an empty undo stack and
\* redo on an empty redo stack change nothing.
C28_AsStated ==
    \A i \in Calls :
        /\ (RecordedEdit(i) /\ i + 1 <= Len(log) /\ log[i + 1].op = "undo") =>
              /\ Edited(i + 1) = Edited(i - 1)
              /\ (i + 2 <= Len(log) /\ log[i + 2].op = "redo") =>
                    Edited(i + 2) = Edited(i)
        /\ (log[i].op = "undo" /\ log[i - 1].model._undo_stack = <<>>) =>
              Held(i) = Held(i - 1)
        /\ (log[i].op = "redo" /\ log[i - 1].model._redo_stack = <<>>) =>
              Held(i) = Held(i - 1)

\* C28, amended: in a CaseModel whose max_history is at least 1, after any
\* recorded edit undo restores case_data and locked_paths to exactly their
\* values before the edit, and a following redo restores exactly their values
\* after it; undo on an empty undo stack and redo on an empty redo stack
\* change nothing. (With max_history 0 the deque drops every snapshot and
\* undo after an edit changes nothing.)
C28_UndoRedoRoundTrip ==
    \A i \in Calls :
        /\ (/\ RecordedEdit(i)
            /\ model.max_history >= 1
            /\ i + 1 <= Len(log)
            /\ log[i + 1].op = "undo") =>
              /\ Edited(i + 1) = Edited(i - 1)
              /\ (i + 2 <= Len(log) /\ log[i + 2].op = "redo") =>
                    Edited(i + 2) = Edited(i)
        /\ (log[i].op = "undo" /\ log[i - 1].model._undo_stack = <<>>) =>
              Held(i) = Held(i - 1)
        /\ (log[i].op = "redo" /\ log[i - 1].model._redo_stack = <<>>) =>
              Held(i) = Held(i - 1)

\* a value is set at a.b, undone and redone: the state after the undo is the
\* empty case of before the edit, the state after the redo holds the value
C28_Witness ==
    /\ Len(log) = 4
    /\ model.max_history >= 1
    /\ RecordedEdit(2)
    /\ log[2].op = "set_value"
    /\ log[2].path = <<"a", "b">>
    /\ log[3].op = "undo"
    /\ log[4].op = "redo"
    /\ Edited(3) = Edited(1)
    /\ Edited(4) = Edited(2)
    /\ Edited(4) # Edited(3)

\* with max_history 0 the undo after a recorded edit leaves the edit in place
C28_NothingToUndo ==
    /\ Len(log) >= 3
    /\ model.max_history = 0
    /\ RecordedEdit(2)
    /\ log[3].op = "undo"
    /\ Edited(3) = Edited(2)

\* call i is a set_value or a delete_path
ValueCall(i) == log[i].op \in {"set_value", "delete_path"}

\* what case_data holds at path after entry i
Stored(i, path) == _resolve_path(log[i].model.case_data, path)

\* call i left case_data and both stacks as they were and published
\* lock_violation
Rejected(i) ==
    /\ log[i].model.case_data = log[i - 1].model.case_data
    /\ log[i].model._undo_stack = log[i - 1].model._undo_stack
    /\ log[i].model._redo_stack = log[i - 1].model._redo_stack
    /\ log[i].model.bus = <<"lock_violation">>

\* C29: for every sequence of set_value and delete_path calls on any paths,
\* the value stored in case_data at a locked path does not change while the
\* path stays locked; a call addressed to a locked path or to a descendant of
\* one leaves case_data and both history stacks unchanged and publishes
\* lock_violation.
C29_LockSafety ==
    \A i \in Calls :
        ValueCall(i) =>
            /\ \A locked \in log[i - 1].model.locked_paths \cap log[i].model.locked_paths :
                  Stored(i, locked) = Stored(i - 1, locked)
            /\ is_locked(log[i - 1].model, log[i].path) => Rejected(i)

\* what holds of C29: a call addressed, with a path that is not empty, to a
\* locked path or to a descendant of one is rejected, and no call that is
\* not addressed to a proper ancestor of a locked path changes what is
\* stored at it
C29_LockedCallsRejected ==
    \A i \in Calls :
        ValueCall(i) =>
            /\ \A locked \in log[i - 1].model.locked_paths \cap log[i].model.locked_paths :
                  ~StartsWith(locked, log[i].path) =>
                      Stored(i, locked) = Stored(i - 1, locked)
            /\ (is_locked(log[i - 1].model, log[i].path) /\ log[i].path # <<>>) =>
                  Rejected(i)

\* a.b is locked and holds 1; set_value or delete_path addressed to a is
\* carried out and a.b holds nothing any more
C29_AncestorOverwrites ==
    /\ Len(log) >= 3
    /\ <<"a", "b">> \in log[2].model.locked_paths
    /\ <<"a", "b">> \in log[3].model.locked_paths
    /\ Stored(2, <<"a", "b">>) = [dicts |-> {}, leaves |-> [r \in {<<>>} |-> 1]]
    /\ ValueCall(3)
    /\ log[3].path = <<"a">>
    /\ log[3].model.bus = <<"value_changed", "history_changed">>
    /\ Stored(3, <<"a", "b">>) = [dicts |-> {}, leaves |-> [r \in {} |-> 0]]

\* the empty path is locked, which locks every path; a call addressed to the
\* empty path returns before the lock is looked at and publishes nothing
C29_EmptyPathSilent ==
    /\ Len(log) >= 3
    /\ <<>> \in log[2].model.locked_paths
    /\ ValueCall(3)
    /\ log[3].path = <<>>
    /\ log[3].model.bus = <<>>

\* call i is one of set_value, delete_path, set_locked and load_case and
\* changed case_data or locked_paths
Changing(i) ==
    /\ log[i].op \in {"set_value", "delete_path", "set_locked", "load_case"}
    /\ Edited(i) # Edited(i - 1)

\* neither stack holds more than max_history snapshots after entry i
WithinHistory(i) ==
    /\ Len(log[i].model._undo_stack) <= log[i].model.max_history
    /\ Len(log[i].model._redo_stack) <= log[i].model.max_history

\* C30 as stated: after any operation that changes case_data or locked_paths
\* other than undo/redo (set_value, delete_path, set_locked, load_case) the
\* redo stack is empty, and neither the undo nor the redo stack ever holds
\* more than max_history snapshots.
C30_AsStated ==
    \A i \in DOMAIN log :
        /\ (i \in Calls /\ Changing(i)) => log[i].model._redo_stack = <<>>
        /\ WithinHistory(i)

\* what holds of C30: after load_case, and after any set_value, delete_path
\* or set_locked that changes case_data or locked_paths and is called with
\* record_history left true, the redo stack is empty; a set_value or
\* set_locked called with record_history false changes the state and leaves
\* the redo stack as it is. Neither stack ever holds more than max_history
\* snapshots.
C30_HistoryDiscipline ==
    \A i \in DOMAIN log :
        /\ (i \in Calls /\ Changing(i)) =>
              IF log[i].op = "load_case" \/ log[i].record_history
              THEN log[i].model._redo_stack = <<>>
              ELSE log[i].model._redo_stack = log[i - 1].model._redo_stack
        /\ WithinHistory(i)

\* an edit is undone, which fills the redo stack, and a recorded edit that
\* follows empties it
C30_RedoCleared ==
    /\ Len(log) = 4
    /\ log[3].op = "undo"
    /\ log[3].model._redo_stack # <<>>
    /\ RecordedEdit(4)
    /\ log[4].model._redo_stack = <<>>

\* an edit is undone, set_value with record_history false changes case_data,
\* and the redo stack still holds the snapshot of the undone edit
C30_StaleRedo ==
    /\ Len(log) = 4
    /\ log[3].op = "undo"
    /\ log[4].op = "set_value"
    /\ Changing(4)
    /\ ~log[4].record_history
    /\ log[4].model._redo_stack # <<>>

\* the undo stack is full and a further snapshot drops its oldest one
C30_OldestDropped ==
    /\ Len(log) = 4
    /\ RecordedEdit(4)
    /\ Len(log[3].model._undo_stack) = model.max_history
    /\ Len(log[4].model._undo_stack) = model.max_history
    /\ model.max_history >= 1
    /\ log[4].model._undo_stack[1] # log[3].model._undo_stack[1]

====
